---- MODULE Spec2Model ----
(***************************************************************************)
(* Row-level access filter of the text-to-SQL service                      *)
(* (src/agents/sql_filter_agent.py).                                       *)
(*                                                                         *)
(* A SQL string is modelled as the sequence of its lexemes: a lexeme is a  *)
(* maximal run of word characters (\w+), or one whitespace character, or   *)
(* one punctuation character.  Every regular expression of the source      *)
(* only distinguishes these three classes (\b, \w+, \s+ and literals), so  *)
(* matching on lexemes is matching on characters, and equality of lexeme   *)
(* sequences is equality of strings.                                       *)
(***************************************************************************)
EXTENDS Integers, Sequences, FiniteSets, TLC

VARIABLES shape,        \* how the input SQL was built (input enumeration)
          state,        \* the GraphState fields the filter reads and writes
          auth_info,    \* the result of user_auth_service.get_user_authorization
          pc,           \* "start", then which operation has run
          ref_table,    \* argument of _get_table_reference
          ref_result,   \* its return value
          conds,        \* argument of _inject_where_conditions
          inj_result,   \* its return value
          db,           \* the tables behind db_connection and the query that raises
          email,        \* argument of get_user_authorization
          authz,        \* its return value
          queries,      \* the queries it executed, in order
          svc_pc,       \* "start", then "authorized"
          schema,       \* what schema_cache.get_schema() returns
          sch_input,    \* the state fields as they were passed in (input enumeration)
          sch_state,    \* the GraphState fields get_relevant_schema reads and writes
          sch_pc,       \* "start", "retrieved", then "generated"
          llm_reply,    \* what model.generate_content answers when it is called
          llm_calls,     \* how many times it was called
          nlu_reply,    \* what generate_content answers to the NLU prompt
          nlu_state,    \* the GraphState fields analyze_intent writes
          nlu_pc,        \* "start", then "analyzed"
          cache,        \* SchemaCache.cache, the published snapshot
          cache_file,   \* what schema_cache.json holds
          now,          \* time.time()
          procs,        \* the calls in progress, one per thread
          cache0,       \* the snapshot published when the calls began
          db_calls,     \* how many times the database was asked
          published,     \* every snapshot self.cache was ever bound to
          api_request,  \* the request the API handled last
          api_response, \* the answer to it
          api_calls,    \* what that request called: executor, its outcome, formatter
          executed,     \* every SQL string handed to executor_agent.execute_sql
          filtered,     \* every SQL string apply_user_filters returned for a requesting user
          requests      \* how many requests were handled

filterVars == <<shape, state, auth_info, pc, ref_table, ref_result, conds, inj_result>>
authVars == <<db, email, authz, queries, svc_pc>>
schemaVars == <<schema, sch_input, sch_state, sch_pc>>
genVars == <<llm_reply, llm_calls>>
nluVars == <<nlu_reply, nlu_state, nlu_pc>>
cacheVars == <<cache, cache_file, now, procs, cache0, db_calls, published>>
apiVars == <<api_request, api_response, api_calls, executed, filtered, requests>>

vars == <<shape, state, auth_info, pc, ref_table, ref_result, conds, inj_result,
          db, email, authz, queries, svc_pc, schema, sch_input, sch_state, sch_pc,
          llm_reply, llm_calls,
          nlu_reply, nlu_state, nlu_pc,
          cache, cache_file, now, procs, cache0, db_calls, published,
          api_request, api_response, api_calls, executed, filtered, requests>>

(***************************************************************************)
(* Bounds                                                                  *)
(***************************************************************************)
MaxIds == 2         \* longest accessible_project_ids list
MaxAtoms == 2       \* most comparisons in the WHERE clause of an input
MaxCands == 2       \* longest list of table names suggested by the NLU step
MaxLines == 2       \* most lines of a completion answering the NLU prompt
MaxTime == 3        \* latest reading of the clock
MaxRequests == 2    \* most requests the API handles in a run

(***************************************************************************)
(* Lexemes                                                                 *)
(***************************************************************************)
None == "None"      \* Python None

Space == {" ", "\n", "\t"}
Punct == {"*", "(", ")", ",", ";", "=", "'", ".", "[", "]"}

IsSpace(l) == l \in Space
IsWord(l) == l \notin Space /\ l \notin Punct

\* str.lower() on one word lexeme
Lower(w) ==
  CASE w = "SELECT" -> "select"
    [] w = "FROM" -> "from"
    [] w = "JOIN" -> "join"
    [] w = "CROSS" -> "cross"
    [] w = "AS" -> "as"
    [] w = "WHERE" -> "where"
    [] w = "ORDER" -> "order"
    [] w = "BY" -> "by"
    [] w = "AND" -> "and"
    [] w = "OR" -> "or"
    [] w = "IN" -> "in"
    [] w = "Active" -> "active"
    [] w = "EU" -> "eu"
    [] w = "X" -> "x"
    [] w = "A" -> "a"
    [] w = "B" -> "b"
    [] w = "C" -> "c"
    [] w = "D" -> "d"
    [] w = "GROUP" -> "group"
    [] w = "OFFSET" -> "offset"
    [] w = "FETCH" -> "fetch"
    [] w = "ROWS" -> "rows"
    [] w = "NEXT" -> "next"
    [] w = "ONLY" -> "only"
    [] w = "OVER" -> "over"
    [] w = "ROW_NUMBER" -> "row_number"
    [] OTHER -> w

\* str.lower() on a SQL string
LowerSeq(s) == [i \in DOMAIN s |-> Lower(s[i])]

SetMin(S) == CHOOSE x \in S : \A y \in S : x <= y
SetMax(S) == CHOOSE x \in S : \A y \in S : x >= y

\* first index >= i that is not whitespace (Len(s)+1 when there is none): \s*
SkipSpaces(s, i) ==
  SetMin({j \in i..(Len(s) + 1) : j = Len(s) + 1 \/ ~IsSpace(s[j])})

\* str.rstrip()
RStrip(s) ==
  LET keep == {i \in DOMAIN s : ~IsSpace(s[i])}
  IN IF keep = {} THEN <<>> ELSE SubSeq(s, 1, SetMax(keep))

\* s[:pos] and s[pos:] for a 0-based offset pos
Prefix(s, pos) == SubSeq(s, 1, pos)
Suffix(s, pos) == SubSeq(s, pos + 1, Len(s))

(***************************************************************************)
(* SQLFilterAgent._get_table_reference                                     *)
(***************************************************************************)
NoMatch == "<nomatch>"   \* re.search found nothing at this position

RefKeywords == {"where", "order", "group", "having", "limit", "union", "select"}

\* \b(?:FROM|JOIN)\s+ matched at lexeme i: the index after the whitespace, 0 if no match
AfterFromJoin(s, i) ==
  IF /\ s[i] \in {"from", "join"}
     /\ i + 1 <= Len(s)
     /\ IsSpace(s[i + 1])
  THEN SkipSpaces(s, i + 1)
  ELSE 0

\* \s+(?:AS\s+)?(\w+)\b matched from lexeme j: group 1, or NoMatch
AliasFrom(s, j) ==
  IF j > Len(s) \/ ~IsSpace(s[j]) THEN NoMatch
  ELSE LET k == SkipSpaces(s, j)
       IN IF k > Len(s) \/ ~IsWord(s[k]) THEN NoMatch
          ELSE IF /\ s[k] = "as"
                  /\ k + 1 <= Len(s)
                  /\ IsSpace(s[k + 1])
                  /\ SkipSpaces(s, k + 1) <= Len(s)
                  /\ IsWord(s[SkipSpaces(s, k + 1)])
               THEN s[SkipSpaces(s, k + 1)]
               ELSE s[k]

\* pattern 1 at i: \b(?:FROM|JOIN)\s+{table_name}\s+(?:AS\s+)?(\w+)\b
MatchBareAlias(s, table_name, i) ==
  LET t == AfterFromJoin(s, i)
  IN IF t = 0 \/ t > Len(s) \/ s[t] # table_name THEN NoMatch
     ELSE AliasFrom(s, t + 1)

\* pattern 2 at i: \b(?:FROM|JOIN)\s+\[{table_name}\]\s+(?:AS\s+)?(\w+)\b
MatchBracketAlias(s, table_name, i) ==
  LET t == AfterFromJoin(s, i)
  IN IF t = 0 \/ t + 2 > Len(s) \/ s[t] # "[" \/ s[t + 1] # table_name \/ s[t + 2] # "]"
     THEN NoMatch
     ELSE AliasFrom(s, t + 3)

\* pattern 3 at i: \b(?:FROM|JOIN)\s+{table_name}\b
MatchBare(s, table_name, i) ==
  LET t == AfterFromJoin(s, i)
  IN t # 0 /\ t <= Len(s) /\ s[t] = table_name

\* pattern 4 at i: \b(?:FROM|JOIN)\s+\[{table_name}\]\b
\* the final \b stands after "]", a non-word character: it holds only when a
\* word character follows immediately
MatchBracket(s, table_name, i) ==
  LET t == AfterFromJoin(s, i)
  IN /\ t # 0
     /\ t + 3 <= Len(s)
     /\ s[t] = "["
     /\ s[t + 1] = table_name
     /\ s[t + 2] = "]"
     /\ IsWord(s[t + 3])

\* AliasOrTable without the keyword check of line 277
AliasOrTable_NoKeywordCheck(alias, table_name) == alias

\* the alias check of lines 274-280
AliasOrTable(alias, table_name) ==
  IF alias \notin RefKeywords THEN alias ELSE table_name

GetTableReference(sql, table_name) ==
  LET s == LowerSeq(sql)
      m1 == {i \in DOMAIN s : MatchBareAlias(s, table_name, i) # NoMatch}
      m2 == {i \in DOMAIN s : MatchBracketAlias(s, table_name, i) # NoMatch}
      m3 == {i \in DOMAIN s : MatchBare(s, table_name, i)}
      m4 == {i \in DOMAIN s : MatchBracket(s, table_name, i)}
  IN IF m1 # {} THEN AliasOrTable(MatchBareAlias(s, table_name, SetMin(m1)), table_name)
     ELSE IF m2 # {} THEN AliasOrTable(MatchBracketAlias(s, table_name, SetMin(m2)), table_name)
     ELSE IF m3 # {} THEN table_name
     ELSE IF m4 # {} THEN table_name
     ELSE None

(***************************************************************************)
(* SQLFilterAgent._find_where_insertion_point                              *)
(***************************************************************************)
\* \bW1\s+W2\b at lexeme i, case-insensitive
TwoWordAt(s, i, w1, w2) ==
  /\ Lower(s[i]) = w1
  /\ i + 1 <= Len(s)
  /\ IsSpace(s[i + 1])
  /\ SkipSpaces(s, i + 1) <= Len(s)
  /\ Lower(s[SkipSpaces(s, i + 1)]) = w2

\* some pattern of the keyword list matches at lexeme i
ClauseKeywordAt(s, i) ==
  \/ TwoWordAt(s, i, "group", "by")
  \/ Lower(s[i]) = "having"
  \/ TwoWordAt(s, i, "order", "by")
  \/ Lower(s[i]) = "limit"
  \/ Lower(s[i]) = "offset"
  \/ Lower(s[i]) = "fetch"
  \/ TwoWordAt(s, i, "for", "xml")
  \/ TwoWordAt(s, i, "for", "json")

\* FindWhereInsertionPoint when the last match of the list wins over the earliest
FindWhereInsertionPoint_LastMatch(sql) ==
  LET hits == {i \in DOMAIN sql : ClauseKeywordAt(sql, i)}
  IN IF hits = {} THEN Len(sql) ELSE SetMax(hits) - 1

\* the smallest match.start() over the list as a 0-based offset, len(sql) by default
FindWhereInsertionPoint(sql) ==
  LET hits == {i \in DOMAIN sql : ClauseKeywordAt(sql, i)}
  IN IF hits = {} THEN Len(sql) ELSE SetMin(hits) - 1

(***************************************************************************)
(* SQLFilterAgent._inject_where_conditions                                 *)
(***************************************************************************)
RECURSIVE JoinConditions(_)
\* " AND ".join(f"({cond})" for cond in conditions)
JoinConditions(conditions) ==
  IF conditions = <<>> THEN <<>>
  ELSE IF Len(conditions) = 1 THEN <<"(">> \o conditions[1] \o <<")">>
  ELSE <<"(">> \o conditions[1] \o <<")", " ", "AND", " ">> \o JoinConditions(Tail(conditions))

\* lines 169-173: the statement without trailing whitespace and terminator
StripTerminator(sql) ==
  LET r == RStrip(sql)
  IN IF r # <<>> /\ r[Len(r)] = ";" THEN RStrip(SubSeq(r, 1, Len(r) - 1)) ELSE r

\* HasSemicolon when the terminator is forgotten
HasSemicolon_Never(sql) == FALSE

HasSemicolon(sql) ==
  LET r == RStrip(sql)
  IN r # <<>> /\ r[Len(r)] = ";"

\* WherePositions without re.IGNORECASE
WherePositions_CaseSensitive(body) == {i \in DOMAIN body : body[i] = "WHERE"}

\* lines 180-181: the positions of \bWHERE\b, case-insensitive
WherePositions(body) == {i \in DOMAIN body : Lower(body[i]) = "where"}

\* SpliceAfterWhere without the parentheses around the joined conditions
SpliceAfterWhere_NoOuterParens(body, where_pos, filter_clause) ==
  Prefix(body, where_pos)
    \o <<" ">> \o filter_clause \o <<" ", "AND", " ">>
    \o Suffix(body, where_pos)

\* lines 186-191: where_pos is where_match.end() as a 0-based offset
SpliceAfterWhere(body, where_pos, filter_clause) ==
  Prefix(body, where_pos)
    \o <<" ", "(">> \o filter_clause \o <<")", " ", "AND", " ">>
    \o Suffix(body, where_pos)

\* lines 196-201
InsertNewWhere(body, filter_clause) ==
  LET insertion_point == FindWhereInsertionPoint(body)
  IN Prefix(body, insertion_point)
       \o <<"\n", "WHERE", " ">> \o filter_clause
       \o Suffix(body, insertion_point)

InjectWhereConditions(sql, conditions) ==
  IF conditions = <<>> THEN sql
  ELSE
    LET body == StripTerminator(sql)
        filter_clause == JoinConditions(conditions)
        wheres == WherePositions(body)
        modified_sql ==
          IF wheres # {}
          THEN SpliceAfterWhere(body, SetMin(wheres), filter_clause)
          ELSE InsertNewWhere(body, filter_clause)
    IN IF HasSemicolon(sql) THEN modified_sql \o <<";">> ELSE modified_sql

(***************************************************************************)
(* SQLFilterAgent._inject_project_filter, _inject_impossible_filter        *)
(***************************************************************************)
RECURSIVE ProjectIdsStr(_)
\* ",".join(f"'{str(pid)}'" for pid in project_ids)
ProjectIdsStr(project_ids) ==
  IF project_ids = <<>> THEN <<>>
  ELSE IF Len(project_ids) = 1 THEN <<"'", project_ids[1], "'">>
  ELSE <<"'", project_ids[1], "'", ",">> \o ProjectIdsStr(Tail(project_ids))

\* f"{project_ref}.id IN ({project_ids_str})"
ProjectCondition(project_ref, project_ids) ==
  <<project_ref, ".", "id", " ", "IN", " ", "(">> \o ProjectIdsStr(project_ids) \o <<")">>

\* f"{zoho_deals_ref}.id IN (SELECT hubspot_id FROM project WHERE id IN ({project_ids_str}))"
ZohoCondition(zoho_deals_ref, project_ids) ==
  <<zoho_deals_ref, ".", "id", " ", "IN", " ", "(",
    "SELECT", " ", "hubspot_id", " ", "FROM", " ", "project", " ",
    "WHERE", " ", "id", " ", "IN", " ", "(">> \o ProjectIdsStr(project_ids) \o <<")", ")">>

\* ProjectFilters when the zoho_deals test is an elif of the project test
ProjectFilters_FirstOnly(sql, project_ids) ==
  LET project_ref == GetTableReference(sql, "project")
      zoho_deals_ref == GetTableReference(sql, "zoho_deals")
  IN IF project_ref # None THEN <<ProjectCondition(project_ref, project_ids)>>
     ELSE IF zoho_deals_ref # None THEN <<ZohoCondition(zoho_deals_ref, project_ids)>>
     ELSE <<>>

\* the filters list of lines 119-131
ProjectFilters(sql, project_ids) ==
  LET project_ref == GetTableReference(sql, "project")
      zoho_deals_ref == GetTableReference(sql, "zoho_deals")
  IN (IF project_ref # None THEN <<ProjectCondition(project_ref, project_ids)>> ELSE <<>>)
       \o (IF zoho_deals_ref # None THEN <<ZohoCondition(zoho_deals_ref, project_ids)>> ELSE <<>>)

\* InjectProjectFilter without the early return of lines 114-116
InjectProjectFilter_NoEarlyReturn(sql, project_ids) ==
  InjectWhereConditions(sql, <<ProjectCondition("project", project_ids)>>)

InjectProjectFilter(sql, project_ids) ==
  LET project_ref == GetTableReference(sql, "project")
      zoho_deals_ref == GetTableReference(sql, "zoho_deals")
  IN IF project_ref = None /\ zoho_deals_ref = None THEN sql
     ELSE InjectWhereConditions(sql, ProjectFilters(sql, project_ids))

ImpossibleCondition == <<"1", " ", "=", " ", "0">>

InjectImpossibleFilter(sql) == InjectWhereConditions(sql, <<ImpossibleCondition>>)

(***************************************************************************)
(* Input SQL statements                                                    *)
(*                                                                         *)
(* SELECT * FROM <table> [[AS] alias] [follow] [terminator]                *)
(* SELECT * FROM client k CROSS JOIN <table> [[AS] alias] [follow] [term]  *)
(***************************************************************************)
Tables == {"project", "zoho_deals", "project_team"}

AliasOf(tbl) ==
  CASE tbl = "project" -> "p"
    [] tbl = "zoho_deals" -> "z"
    [] OTHER -> "pt"

AtomCols == <<"status", "region", "kind", "zone">>
AtomVals == <<"Active", "EU", "X", "D">>

RECURSIVE SeqsUpTo(_, _)
\* the sequences over S of length at most n
SeqsUpTo(S, n) ==
  IF n = 0 THEN {<<>>}
  ELSE LET shorter == SeqsUpTo(S, n - 1)
       IN shorter \cup {Append(q, x) : q \in shorter, x \in S}

\* the boolean operators between the comparisons of a WHERE clause
OpSeqs == SeqsUpTo({"AND", "OR"}, MaxAtoms - 1)

Follows ==
  {[kind |-> k, ops |-> <<>>, paren |-> FALSE] : k \in {"end", "comma", "join", "order", "group_order", "order_fetch"}}
    \cup {[kind |-> "where", ops |-> o, paren |-> b] : o \in OpSeqs, b \in BOOLEAN}

Terms == {"none", "semi", "semi_ws", "ws"}

NoSql ==
  [tbl |-> "none", head |-> "star", quoted |-> FALSE, kw |-> "FROM", alias |-> "none",
   lowerkw |-> FALSE,
   follow |-> [kind |-> "end", ops |-> <<>>, paren |-> FALSE], term |-> "none"]

Shapes ==
  {sh \in [tbl : Tables, head : {"star"}, quoted : BOOLEAN, kw : {"FROM", "JOIN"},
           alias : {"none", "bare", "as"}, lowerkw : BOOLEAN,
           follow : Follows, term : Terms] :
     /\ sh.follow.kind = "join" => sh.tbl = "project"
     /\ sh.follow.kind \in {"group_order", "order_fetch"}
          => (sh.tbl = "project" /\ sh.kw = "FROM")}

\* a keyword in the letter case of the statement
Kw(sh, w) == IF sh.lowerkw THEN Lower(w) ELSE w

\* the name the statement itself uses for the table in column references
NameOf(sh) == IF sh.alias = "none" THEN sh.tbl ELSE AliasOf(sh.tbl)

Atom(sh, i) == <<NameOf(sh), ".", AtomCols[i], "=", "'", AtomVals[i], "'">>

RECURSIVE PredFrom(_, _, _)
\* comparison i followed by the remaining operators and comparisons
PredFrom(sh, ops, i) ==
  IF ops = <<>> THEN Atom(sh, i)
  ELSE Atom(sh, i) \o <<" ", Kw(sh, Head(ops)), " ">> \o PredFrom(sh, Tail(ops), i + 1)

Pred(sh) ==
  IF sh.follow.paren THEN <<"(">> \o PredFrom(sh, sh.follow.ops, 1) \o <<")">>
  ELSE PredFrom(sh, sh.follow.ops, 1)

\* the select list: *, a column named like a keyword of the list, or a
\* window function
SelectList(sh) ==
  CASE sh.head = "limit_col" -> <<NameOf(sh), ".", "limit">>
    [] sh.head = "offset_col" -> <<NameOf(sh), ".", "offset">>
    [] sh.head = "fetch_col" -> <<NameOf(sh), ".", "fetch">>
    [] sh.head = "over" ->
         <<Kw(sh, "ROW_NUMBER"), "(", ")", " ", Kw(sh, "OVER"), " ", "(",
           Kw(sh, "ORDER"), " ", Kw(sh, "BY"), " ", NameOf(sh), ".", "id", ")">>
    [] OTHER -> <<"*">>

HeadPart(sh) ==
  IF sh.kw = "FROM"
  THEN <<Kw(sh, "SELECT"), " ">> \o SelectList(sh) \o <<" ", Kw(sh, "FROM"), " ">>
  ELSE <<Kw(sh, "SELECT"), " ">> \o SelectList(sh)
         \o <<" ", Kw(sh, "FROM"), " ", "client", " ", "k", " ",
              Kw(sh, "CROSS"), " ", Kw(sh, "JOIN"), " ">>

TablePart(sh) == IF sh.quoted THEN <<"[", sh.tbl, "]">> ELSE <<sh.tbl>>

AliasPart(sh) ==
  CASE sh.alias = "none" -> <<>>
    [] sh.alias = "bare" -> <<" ", AliasOf(sh.tbl)>>
    [] OTHER -> <<" ", Kw(sh, "AS"), " ", AliasOf(sh.tbl)>>

FollowPart(sh) ==
  CASE sh.follow.kind = "end" -> <<>>
    [] sh.follow.kind = "comma" -> <<",", " ", "client", " ", "k2">>
    [] sh.follow.kind = "join" ->
         <<" ", Kw(sh, "JOIN"), " ", "zoho_deals", " ", "z", " ", "ON", " ",
           "z", ".", "id", " ", "=", " ", NameOf(sh), ".", "hubspot_id">>
    [] sh.follow.kind = "order" ->
         <<" ", Kw(sh, "ORDER"), " ", Kw(sh, "BY"), " ", NameOf(sh), ".", "name">>
    [] sh.follow.kind = "group_order" ->
         <<" ", Kw(sh, "GROUP"), " ", Kw(sh, "BY"), " ", NameOf(sh), ".", "status",
           " ", Kw(sh, "ORDER"), " ", Kw(sh, "BY"), " ", NameOf(sh), ".", "status">>
    [] sh.follow.kind = "order_fetch" ->
         <<" ", Kw(sh, "ORDER"), " ", Kw(sh, "BY"), " ", NameOf(sh), ".", "name",
           " ", Kw(sh, "OFFSET"), " ", "0", " ", Kw(sh, "ROWS"),
           " ", Kw(sh, "FETCH"), " ", Kw(sh, "NEXT"), " ", "5", " ", Kw(sh, "ROWS"),
           " ", Kw(sh, "ONLY")>>
    [] OTHER -> <<" ", Kw(sh, "WHERE"), " ">> \o Pred(sh)

TermPart(sh) ==
  CASE sh.term = "none" -> <<>>
    [] sh.term = "semi" -> <<";">>
    [] sh.term = "semi_ws" -> <<";", " ", "\n">>
    [] OTHER -> <<" ">>

\* the statement text; <<>> stands for a missing or empty generated_sql, which
\* line 36 treats alike
Build(sh) ==
  IF sh.tbl = "none" THEN <<>>
  ELSE HeadPart(sh) \o TablePart(sh) \o AliasPart(sh) \o FollowPart(sh) \o TermPart(sh)

(***************************************************************************)
(* Authorization results (the dict of get_user_authorization)              *)
(***************************************************************************)
IdNames == <<"A", "B", "C", "D">>
IdPool == {IdNames[i] : i \in 1..MaxIds}

IdRank(x) == CHOOSE i \in DOMAIN IdNames : IdNames[i] = x

IsAscending(q) == \A i, j \in DOMAIN q : i < j => IdRank(q[i]) < IdRank(q[j])

\* the id lists the DISTINCT query can return, each set of ids in one order
IdLists == {q \in SeqsUpTo(IdPool, MaxIds) : IsAscending(q)}

NotCalled ==
  [user_id |-> None, is_admin |-> FALSE, accessible_project_ids |-> <<>>,
   error |-> "not called"]

AuthResults ==
  {[user_id |-> None, is_admin |-> FALSE, accessible_project_ids |-> <<>>,
    error |-> "User not found"]}
    \cup {[user_id |-> "u1", is_admin |-> a, accessible_project_ids |-> ids, error |-> None] :
            a \in BOOLEAN, ids \in IdLists}

(***************************************************************************)
(* SQLFilterAgent.apply_user_filters                                       *)
(***************************************************************************)
MsgEmailRequired == "User email is required for access control"
MsgAuthFailed == "Authorization failed: User not found"
MsgAdmin == "Admin user - no project filtering applied"
MsgNoAccess == "Warning: You have no project access. Query will return empty results."
MsgApplied == "Project access filter applied"

\* FilteredSql without the admin return of lines 57-60
FilteredSql_NoAdminReturn(generated_sql, a) ==
  IF a.accessible_project_ids = <<>>
  THEN InjectImpossibleFilter(generated_sql)
  ELSE InjectProjectFilter(generated_sql, a.accessible_project_ids)

\* lines 56-77: the statement left in generated_sql once authorization succeeded
FilteredSql(generated_sql, a) ==
  IF a.is_admin THEN generated_sql
  ELSE IF a.accessible_project_ids = <<>>
  THEN InjectImpossibleFilter(generated_sql)
  ELSE InjectProjectFilter(generated_sql, a.accessible_project_ids)

\* lines 59-80: the messages appended once authorization succeeded
FilterMessages(a) ==
  IF a.is_admin THEN <<MsgAdmin>>
  ELSE IF a.accessible_project_ids = <<>> THEN <<MsgNoAccess, MsgApplied>>
  ELSE <<MsgApplied>>

\* ApplyUserFiltersTo without the error check of lines 43-48
ApplyUserFiltersTo_NoErrorCheck(st, a) ==
  IF st.user_email = None
  THEN [st EXCEPT !.validation_message = MsgEmailRequired, !.is_valid = FALSE]
  ELSE IF st.generated_sql = <<>> THEN st
  ELSE [st EXCEPT !.user_id = a.user_id,
                  !.is_admin = a.is_admin,
                  !.accessible_project_ids = a.accessible_project_ids,
                  !.original_sql = st.generated_sql,
                  !.generated_sql = FilteredSql(st.generated_sql, a),
                  !.messages = st.messages \o FilterMessages(a)]

\* apply_user_filters without the check of lines 30-34
ApplyUserFiltersTo_NoEmailCheck(st, a) ==
  IF st.generated_sql = <<>> THEN st
  ELSE IF a.error # None
  THEN [st EXCEPT !.validation_message = MsgAuthFailed,
                  !.is_valid = FALSE,
                  !.error = a.error]
  ELSE [st EXCEPT !.user_id = a.user_id,
                  !.is_admin = a.is_admin,
                  !.accessible_project_ids = a.accessible_project_ids,
                  !.original_sql = st.generated_sql,
                  !.generated_sql = FilteredSql(st.generated_sql, a),
                  !.messages = st.messages \o FilterMessages(a)]

\* the state apply_user_filters returns when the service answers a
ApplyUserFiltersTo(st, a) ==
  IF st.user_email = None
  THEN [st EXCEPT !.validation_message = MsgEmailRequired, !.is_valid = FALSE]
  ELSE IF st.generated_sql = <<>> THEN st
  ELSE IF a.error # None
  THEN [st EXCEPT !.validation_message = MsgAuthFailed,
                  !.is_valid = FALSE,
                  !.error = a.error]
  ELSE [st EXCEPT !.user_id = a.user_id,
                  !.is_admin = a.is_admin,
                  !.accessible_project_ids = a.accessible_project_ids,
                  !.original_sql = st.generated_sql,
                  !.generated_sql = FilteredSql(st.generated_sql, a),
                  !.messages = st.messages \o FilterMessages(a)]

\* whether lines 27-38 return before the authorization service is called
ReturnsBeforeAuth(st) == st.user_email = None \/ st.generated_sql = <<>>

\* the statements in plain form: upper-case keywords, FROM, no brackets, no terminator
PlainShapes ==
  {sh \in Shapes : ~sh.lowerkw /\ ~sh.quoted /\ sh.kw = "FROM" /\ sh.term = "none"}

GenIdle ==
  /\ llm_reply = [raises |-> FALSE, text |-> <<>>]
  /\ llm_calls = 0

NluIdle ==
  /\ nlu_reply = [raises |-> FALSE, text |-> <<>>]
  /\ nlu_state = [intent |-> <<None>>, entities |-> <<>>, relevant_tables |-> <<>>,
                  step |-> "idle", error |-> None]
  /\ nlu_pc = "idle"

CacheIdle ==
  /\ cache = [kind |-> "empty", has_timestamp |-> FALSE, timestamp |-> 0, tables |-> {},
              source |-> "none"]
  /\ cache_file = [kind |-> "absent", has_timestamp |-> FALSE, timestamp |-> 0, tables |-> {},
                   source |-> "none"]
  /\ now = 0
  /\ procs = <<>>
  /\ cache0 = cache
  /\ db_calls = 0
  /\ published = {}

ApiIdle ==
  /\ api_request = [endpoint |-> "none", body |-> <<>>]
  /\ api_response = [status |-> 0, body |-> <<>>]
  /\ api_calls = [executor |-> FALSE, outcome |-> "none", formatter |-> FALSE]
  /\ executed = {}
  /\ filtered = {}
  /\ requests = 0

\* the authorization service and the schema agent before any call to them
AuthIdle ==
  /\ db = [users |-> {}, team |-> {}, owner |-> <<>>, fail |-> "none"]
  /\ email = None
  /\ authz = NotCalled
  /\ queries = <<>>
  /\ svc_pc = "idle"

SchemaIdle ==
  /\ schema = [tables |-> {}, raises |-> FALSE]
  /\ sch_input = [query_kind |-> "empty", tables_from_nlu |-> <<>>]
  /\ sch_state = [user_query |-> <<>>, relevant_tables |-> <<>>, schema_context |-> <<>>,
                  generated_sql |-> [is_none |-> TRUE, sanitize_sql_of |-> <<>>],
                  is_valid |-> FALSE, validation_message |-> "", messages |-> <<>>,
                  requires_human_approval |-> FALSE,
                  step |-> "idle", error |-> None]
  /\ sch_pc = "idle"

\* every statement is filtered for a request with an email whose state is
\* valid so far; a missing email and an invalid state are combined with the
\* statements in plain form
Init ==
  /\ shape \in Shapes \cup {NoSql}
  /\ \E e \in {None, "alice@example.com"}, v \in BOOLEAN :
       /\ (e = None \/ ~v) => shape \in PlainShapes \cup {NoSql}
       /\ state = [user_email |-> e,
                   generated_sql |-> Build(shape),
                   original_sql |-> <<>>,
                   user_id |-> None,
                   is_admin |-> FALSE,
                   accessible_project_ids |-> <<>>,
                   is_valid |-> v,
                   validation_message |-> "",
                   error |-> None,
                   messages |-> <<>>]
  /\ auth_info = NotCalled
  /\ pc = "start"
  /\ ref_table = None
  /\ ref_result = None
  /\ conds = <<>>
  /\ inj_result = <<>>
  /\ AuthIdle
  /\ SchemaIdle
  /\ GenIdle
  /\ NluIdle
  /\ CacheIdle
  /\ ApiIdle

ApplyUserFilters ==
  /\ pc = "start"
  /\ \E a \in AuthResults :
       /\ auth_info' = IF ReturnsBeforeAuth(state) THEN NotCalled ELSE a
       /\ state' = ApplyUserFiltersTo(state, a)
  /\ pc' = "filtered"
  /\ UNCHANGED <<shape, ref_table, ref_result, conds, inj_result, authVars, schemaVars, genVars, nluVars, cacheVars, apiVars>>

\* _get_table_reference applied to the statement and one protected table
GetTableReferenceCall ==
  /\ pc = "start"
  /\ \E t \in {"project", "zoho_deals"} :
       /\ ref_table' = t
       /\ ref_result' = GetTableReference(state.generated_sql, t)
  /\ pc' = "referenced"
  /\ UNCHANGED <<shape, state, auth_info, conds, inj_result, authVars, schemaVars, genVars, nluVars, cacheVars, apiVars>>

\* the condition lists the callers of _inject_where_conditions build
ConditionLists ==
  {<<>>, <<ImpossibleCondition>>}
    \cup {<<ProjectCondition("p", ids)>> : ids \in {q \in IdLists : Len(q) = MaxIds}}

\* _inject_where_conditions applied to the statement and a condition list
\* statements on project whose select list holds a word of the keyword list
SelectListShapes ==
  {sh \in [tbl : {"project"}, head : {"limit_col", "offset_col", "fetch_col", "over"},
           quoted : BOOLEAN, kw : {"FROM", "JOIN"}, alias : {"none", "bare", "as"},
           lowerkw : BOOLEAN, follow : {f \in Follows : f.kind \in {"end", "order"}},
           term : {"none", "semi"}] :
     sh.quoted => sh.alias # "none"}

InitSelectList ==
  /\ shape \in SelectListShapes
  /\ state = [user_email |-> "alice@example.com",
              generated_sql |-> Build(shape),
              original_sql |-> <<>>,
              user_id |-> None,
              is_admin |-> FALSE,
              accessible_project_ids |-> <<>>,
              is_valid |-> TRUE,
              validation_message |-> "",
              error |-> None,
              messages |-> <<>>]
  /\ auth_info = NotCalled
  /\ pc = "start"
  /\ ref_table = None
  /\ ref_result = None
  /\ conds = <<>>
  /\ inj_result = <<>>
  /\ AuthIdle
  /\ SchemaIdle
  /\ GenIdle
  /\ NluIdle
  /\ CacheIdle
  /\ ApiIdle

InjectWhereConditionsCall ==
  /\ pc = "start"
  /\ \E c \in ConditionLists :
       /\ conds' = c
       /\ inj_result' = InjectWhereConditions(state.generated_sql, c)
  /\ pc' = "injected"
  /\ UNCHANGED <<shape, state, auth_info, ref_table, ref_result, authVars, schemaVars, genVars, nluVars, cacheVars, apiVars>>

Next ==
  \/ ApplyUserFilters
  \/ GetTableReferenceCall
  \/ InjectWhereConditionsCall

Spec == Init /\ [][Next]_vars

SpecSelectList == InitSelectList /\ [][Next]_vars

(***************************************************************************)
(* What a statement returns: the rows of the FROM clause that satisfy the  *)
(* outer WHERE predicate, with T-SQL precedence (parentheses, then AND,    *)
(* then OR).  A row is given by the truth of each comparison on it.        *)
(***************************************************************************)
RowCols == {"id", "hubspot_id"} \cup {AtomCols[i] : i \in 1..MaxAtoms}

\* "id": the row's id is in the accessible id list; "hubspot_id": it is among
\* the hubspot ids of the accessible projects; a column: its comparison holds
Rows == [RowCols -> BOOLEAN]

NotSpace(l) == ~IsSpace(l)
NoSpaces(s) == SelectSeq(s, NotSpace)

\* parentheses open before lexeme i
Depth(s, i) ==
  Cardinality({j \in 1..(i - 1) : s[j] = "("}) - Cardinality({j \in 1..(i - 1) : s[j] = ")"})

TopLevel(s, words) == {i \in DOMAIN s : Lower(s[i]) \in words /\ Depth(s, i) = 0}

\* one comparison on a row
EvalComparison(s, row) ==
  IF s = <<"1", "=", "0">> THEN FALSE
  ELSE IF Len(s) >= 4 /\ s[2] = "." /\ s[3] = "id" /\ Lower(s[4]) = "in"
  THEN IF \E i \in DOMAIN s : s[i] = "hubspot_id" THEN row["hubspot_id"] ELSE row["id"]
  ELSE row[s[3]]

RECURSIVE EvalOr(_, _), EvalAnd(_, _), EvalOperand(_, _)
EvalOr(s, row) ==
  LET ors == TopLevel(s, {"or"})
  IN IF ors = {} THEN EvalAnd(s, row)
     ELSE EvalAnd(SubSeq(s, 1, SetMin(ors) - 1), row)
            \/ EvalOr(SubSeq(s, SetMin(ors) + 1, Len(s)), row)

EvalAnd(s, row) ==
  LET ands == TopLevel(s, {"and"})
  IN IF ands = {} THEN EvalOperand(s, row)
     ELSE EvalOperand(SubSeq(s, 1, SetMin(ands) - 1), row)
            /\ EvalAnd(SubSeq(s, SetMin(ands) + 1, Len(s)), row)

EvalOperand(s, row) ==
  IF s[1] = "(" /\ \A i \in 2..Len(s) : Depth(s, i) >= 1
  THEN EvalOr(SubSeq(s, 2, Len(s) - 1), row)
  ELSE EvalComparison(s, row)

\* the outer WHERE predicate of a statement, <<>> when it has none
OuterPredicate(sql) ==
  LET s == NoSpaces(sql)
      ws == TopLevel(s, {"where"})
  IN IF ws = {} THEN <<>>
     ELSE LET w == SetMin(ws)
              stops == {i \in TopLevel(s, {"order", "group", "having"}) : i > w}
                         \cup {i \in DOMAIN s : s[i] = ";"}
                         \cup {Len(s) + 1}
          IN SubSeq(s, w + 1, SetMin(stops) - 1)

\* the statement returns the row
Returns(sql, row) ==
  LET pred == OuterPredicate(sql)
  IN IF pred = <<>> THEN TRUE ELSE EvalOr(pred, row)

ContainsSeq(s, sub) ==
  \E i \in 1..(Len(s) - Len(sub) + 1) : SubSeq(s, i, i + Len(sub) - 1) = sub

Count(s, l) == Cardinality({i \in DOMAIN s : s[i] = l})

(***************************************************************************)
(* Claims                                                                  *)
(***************************************************************************)
\* the filter ran to its end for an identity whose authorization succeeded
Authorized == pc = "filtered" /\ auth_info.error = None

InputSql == Build(shape)

\* C1: for a non-admin identity whose authorization succeeded and a statement
\* that reads project or zoho_deals through FROM or JOIN (bare or bracketed,
\* with or without alias), the generated_sql left by apply_user_filters is
\* not the unfiltered input: it carries an ownership predicate on that table
\* or the predicate 1 = 0.
C1_NeverUnfiltered ==
  (/\ Authorized
   /\ ~auth_info.is_admin
   /\ shape.tbl \in {"project", "zoho_deals"})
  => /\ state.generated_sql # InputSql
     /\ \/ ContainsSeq(state.generated_sql, ImpossibleCondition)
        \/ /\ shape.tbl = "project"
           /\ \E i \in DOMAIN state.generated_sql :
                ContainsSeq(state.generated_sql,
                            ProjectCondition(state.generated_sql[i],
                                             auth_info.accessible_project_ids))
        \/ /\ shape.tbl = "zoho_deals"
           /\ \E i \in DOMAIN state.generated_sql :
                ContainsSeq(state.generated_sql,
                            ZohoCondition(state.generated_sql[i],
                                          auth_info.accessible_project_ids))

\* C2: when the authorization result has is_admin true, generated_sql is left
\* equal to the input SQL, whatever the accessible id list contains.
C2_AdminUnchanged ==
  (Authorized /\ auth_info.is_admin) => state.generated_sql = InputSql

C2_Witness ==
  /\ Authorized
  /\ auth_info.is_admin
  /\ Len(auth_info.accessible_project_ids) = MaxIds
  /\ shape.tbl = "project"
  /\ shape.follow.kind = "where"
  /\ state.generated_sql = InputSql
  /\ state.original_sql = InputSql

\* C3: for a non-admin result with an empty accessible id list, the filtered
\* SQL contains the literal predicate 1 = 0 and returns no row whatever the
\* table holds, with or without a WHERE clause in the input and whatever
\* boolean operators that clause uses.
C3_EmptyAccessZeroRows ==
  (/\ Authorized
   /\ ~auth_info.is_admin
   /\ auth_info.accessible_project_ids = <<>>)
  => /\ ContainsSeq(state.generated_sql, ImpossibleCondition)
     /\ \A row \in Rows : ~Returns(state.generated_sql, row)

\* the conditions the filter injected for the authorization result
InjectedConditions ==
  IF auth_info.accessible_project_ids = <<>> THEN <<ImpossibleCondition>>
  ELSE ProjectFilters(InputSql, auth_info.accessible_project_ids)

\* C4: when the input SQL already has a WHERE clause, the rewritten predicate
\* is the logical AND of the injected filter and the whole original
\* predicate: every row the rewritten statement returns satisfies every
\* injected condition and the original predicate.
C4_RewriteOnlyNarrows ==
  (/\ Authorized
   /\ ~auth_info.is_admin
   /\ shape.follow.kind = "where"
   /\ state.generated_sql # InputSql)
  => \A row \in Rows :
       Returns(state.generated_sql, row)
         => /\ Returns(InputSql, row)
            /\ \A k \in DOMAIN InjectedConditions :
                 EvalOperand(NoSpaces(InjectedConditions[k]), row)

\* the statement names neither protected table
NeitherTable == \A i \in DOMAIN InputSql : Lower(InputSql[i]) \notin {"project", "zoho_deals"}

\* C5 as stated: if the SQL contains neither project nor zoho_deals, the
\* filter leaves the exact input string, for every authorization result
\* without an error.
C5_NoTableUnchanged_Original ==
  (Authorized /\ NeitherTable) => state.generated_sql = InputSql

\* C5 as amended: if the SQL contains neither project nor zoho_deals, the
\* filter leaves the exact input string for an admin and for a non-admin
\* with a non-empty accessible id list; with an empty list 1 = 0 is injected.
C5_NoTableUnchanged ==
  (/\ Authorized
   /\ NeitherTable
   /\ (auth_info.is_admin \/ auth_info.accessible_project_ids # <<>>))
  => state.generated_sql = InputSql

C5_Witness ==
  /\ Authorized
  /\ NeitherTable
  /\ ~auth_info.is_admin
  /\ Len(auth_info.accessible_project_ids) = MaxIds
  /\ shape.tbl = "project_team"
  /\ shape.term = "semi_ws"
  /\ state.generated_sql = InputSql

\* the statements and results of the two worked examples
Sql6a == <<"SELECT", " ", "*", " ", "FROM", " ", "project", " ", "p">>
Sql6b == Sql6a \o <<" ", "WHERE", " ", "p", ".", "status", "=", "'", "Active", "'">>
IdsAB == <<"'", "A", "'", ",", "'", "B", "'">>
Out6a ==
  Sql6a \o <<"\n", "WHERE", " ", "(", "p", ".", "id", " ", "IN", " ", "(">> \o IdsAB \o <<")", ")">>
Out6b_Claimed ==
  Sql6a \o <<" ", "WHERE", " ", "(", "p", ".", "id", " ", "IN", " ", "(">> \o IdsAB
        \o <<")", ")", " ", "AND", " ", " ", "p", ".", "status", "=", "'", "Active", "'">>
Out6b ==
  Sql6a \o <<" ", "WHERE", " ", "(", "(", "p", ".", "id", " ", "IN", " ", "(">> \o IdsAB
        \o <<")", ")", ")", " ", "AND", " ", " ", "p", ".", "status", "=", "'", "Active", "'">>

FilteredForAB ==
  /\ Authorized
  /\ ~auth_info.is_admin
  /\ auth_info.accessible_project_ids = <<"A", "B">>

\* C6 as stated: with accessible ids A and B, SELECT * FROM project p becomes
\* that text, a newline and WHERE (p.id IN ('A','B')), and
\* SELECT * FROM project p WHERE p.status='Active' becomes
\* SELECT * FROM project p WHERE (p.id IN ('A','B')) AND  p.status='Active'.
C6_ExactText_Original ==
  FilteredForAB
  => /\ state.original_sql = Sql6a => state.generated_sql = Out6a
     /\ state.original_sql = Sql6b => state.generated_sql = Out6b_Claimed

\* C6 as amended: the first result is as stated; the second is
\* SELECT * FROM project p WHERE ((p.id IN ('A','B'))) AND  p.status='Active'
\* (the joined conditions, each in parentheses, are wrapped in one more pair).
C6_ExactText ==
  FilteredForAB
  => /\ state.original_sql = Sql6a => state.generated_sql = Out6a
     /\ state.original_sql = Sql6b => state.generated_sql = Out6b

C6_Witness ==
  /\ FilteredForAB
  /\ state.original_sql = Sql6b
  /\ state.generated_sql = Out6b

\* the table searched by _get_table_reference is the one the statement reads
SearchedIsRead == pc = "referenced" /\ shape.tbl = ref_table

\* the statement reads the searched table after FROM or JOIN
SearchedIsReferenced ==
  \/ shape.tbl = ref_table
  \/ shape.follow.kind = "join" /\ ref_table = "zoho_deals"

\* nothing, or a clause keyword of the list, follows the table name
BareFollowers == {"end", "comma", "where", "order"}

C8_BracketReference ==
  (SearchedIsRead /\ shape.quoted)
  => /\ ref_result # None
     /\ shape.alias # "none" => ref_result = AliasOf(shape.tbl)
     /\ (shape.alias = "none" /\ shape.follow.kind \in BareFollowers)
          => ref_result = ref_table

\* the statement went through an injection: _inject_where_conditions was
\* called with conditions, or apply_user_filters rewrote the statement
Injected ==
  \/ pc = "injected" /\ conds # <<>>
  \/ Authorized /\ state.generated_sql # InputSql

InjectedSql == IF pc = "injected" THEN inj_result ELSE state.generated_sql

\* C9: if the input ends with a single ; (optionally followed by whitespace),
\* the SQL after injection ends with ; and contains it exactly once; if the
\* input has no trailing ;, injection adds none.
C9_TerminatorPreserved ==
  Injected
  => /\ shape.term \in {"semi", "semi_ws"}
          => /\ InjectedSql[Len(InjectedSql)] = ";"
             /\ Count(InjectedSql, ";") = 1
     /\ shape.term \in {"none", "ws"} => Count(InjectedSql, ";") = 0

C9_Witness ==
  /\ pc = "injected"
  /\ conds # <<>>
  /\ shape.term = "semi_ws"
  /\ shape.follow.kind = "order"
  /\ inj_result[Len(inj_result)] = ";"
  /\ Count(inj_result, ";") = 1

\* the input up to and including its WHERE token, and what follows it
UpToWhere == HeadPart(shape) \o TablePart(shape) \o AliasPart(shape) \o <<" ", Kw(shape, "WHERE")>>
AfterWhere == <<" ">> \o Pred(shape)

\* C10: when the SQL contains WHERE as a whole word in any letter case,
\* _inject_where_conditions inserts " (<joined conditions>) AND " right after
\* the first WHERE token and changes nothing else apart from the stripped
\* trailing whitespace and terminator.
C10_SpliceAfterWhere ==
  (pc = "injected" /\ conds # <<>> /\ shape.follow.kind = "where")
  => inj_result =
       UpToWhere \o <<" ", "(">> \o JoinConditions(conds) \o <<")", " ", "AND", " ">>
         \o AfterWhere
         \o (IF shape.term \in {"semi", "semi_ws"} THEN <<";">> ELSE <<>>)

C10_Witness ==
  /\ pc = "injected"
  /\ conds # <<>>
  /\ shape.follow.kind = "where"
  /\ shape.lowerkw
  /\ shape.term = "ws"
  /\ ContainsSeq(inj_result, <<"where", " ", "(", "(">>)

\* the input up to the first clause keyword, and the clauses from that keyword
\* on, for a statement without WHERE
BeforeClauses ==
  HeadPart(shape) \o TablePart(shape) \o AliasPart(shape)
    \o (IF shape.follow.kind \in {"end", "comma", "join"} THEN FollowPart(shape) ELSE <<" ">>)
ClausesFrom ==
  IF shape.follow.kind \in {"end", "comma", "join"} THEN <<>> ELSE Tail(FollowPart(shape))

\* C11: when the SQL has no WHERE keyword, _inject_where_conditions inserts a
\* new WHERE <joined conditions> clause immediately before the earliest of
\* GROUP BY, HAVING, ORDER BY, LIMIT, OFFSET, FETCH, FOR XML, FOR JSON, and
\* appends it at the end of the statement when none occurs; the rest of the
\* text is unchanged.
C11_NewWhereBeforeClauses ==
  (pc = "injected" /\ conds # <<>> /\ shape.tbl # "none" /\ shape.follow.kind # "where")
  => inj_result =
       BeforeClauses \o <<"\n", "WHERE", " ">> \o JoinConditions(conds) \o ClausesFrom
         \o (IF shape.term \in {"semi", "semi_ws"} THEN <<";">> ELSE <<>>)

C11_Witness ==
  /\ pc = "injected"
  /\ conds = <<ImpossibleCondition>>
  /\ shape.follow.kind = "group_order"
  /\ shape.lowerkw
  /\ ContainsSeq(inj_result, <<"0", ")", "group", " ", "by">>)
  /\ ~ContainsSeq(inj_result, <<"0", ")", "order", " ", "by">>)

\* C12: when the authorization result carries an error, apply_user_filters
\* sets is_valid to false, sets validation_message and error, leaves
\* generated_sql as it was, and stores no user_id, is_admin or
\* accessible_project_ids.
C12_AuthErrorRefuses ==
  (pc = "filtered" /\ auth_info # NotCalled /\ auth_info.error # None)
  => /\ state.is_valid = FALSE
     /\ state.validation_message = MsgAuthFailed
     /\ state.error = auth_info.error
     /\ state.generated_sql = InputSql
     /\ state.original_sql = <<>>
     /\ state.user_id = None
     /\ state.is_admin = FALSE
     /\ state.accessible_project_ids = <<>>
     /\ state.messages = <<>>

C12_Witness ==
  /\ pc = "filtered"
  /\ auth_info # NotCalled
  /\ auth_info.error = "User not found"
  /\ shape.tbl = "project"
  /\ state.error = "User not found"
  /\ ~state.is_valid

\* the references _inject_project_filter detected in the input statement
DetectedProject == GetTableReference(InputSql, "project")
DetectedZoho == GetTableReference(InputSql, "zoho_deals")

\* the number of WHERE keywords of a statement
WhereCount(sql) == Cardinality({i \in DOMAIN sql : Lower(sql[i]) = "where"})

NoText == <<None>>     \* a NULL column, None in Python

UuidHead == "37c57028-06a0-4cfa-b285"
UuidTail == "-55c5b6a0bfec"
ADMIN_GROUP_UUID == <<UuidHead, UuidTail>>
OtherGroup == "9f1e2d4c-0000-4000-8000-000000000001"

GroupKinds ==
  {"null", "empty", "exact", "list", "other", "truncated", "swapped", "embedded", "upper"}

\* whether the text of that kind holds the admin UUID as a substring
HasAdminUuid(kind) == kind \in {"exact", "list", "embedded"}

GroupsText(kind) ==
  CASE kind = "null" -> NoText
    [] kind = "empty" -> <<>>
    [] kind = "exact" -> ADMIN_GROUP_UUID
    [] kind = "list" -> <<"[", "'", OtherGroup, "'", ",", "'">> \o ADMIN_GROUP_UUID \o <<"'", "]">>
    [] kind = "other" -> <<OtherGroup>>
    [] kind = "truncated" -> <<UuidHead>>
    [] kind = "swapped" -> <<UuidTail, UuidHead>>
    [] kind = "embedded" -> <<"x">> \o ADMIN_GROUP_UUID \o <<"y">>
    [] kind = "upper" -> <<"37C57028-06A0-4CFA-B285", "-55C5B6A0BFEC">>

\* LOWER() of the email column and of the parameter
EmailLower(e) ==
  CASE e = "Alice@Example.com" -> "alice@example.com"
    [] e = "ALICE@EXAMPLE.COM" -> "alice@example.com"
    [] OTHER -> e

QueryEmails ==
  {"alice@example.com", "ALICE@EXAMPLE.COM", "bob@example.com", "carol@example.com"}

AliceRow(kind) == [id |-> "u1", email |-> "Alice@Example.com", groups |-> GroupsText(kind)]
BobRow == [id |-> "u2", email |-> "bob@example.com", groups |-> <<OtherGroup>>]

\* the [user] table holds bob and may hold alice; project_team holds bob's
\* membership of project 1 and any memberships of alice, a NULL project_id
\* among them; every project has alice or bob as owner; at most one query raises
Dbs ==
  [users : {{BobRow}} \cup {{AliceRow(k), BobRow} : k \in GroupKinds},
   team : {{<<"u2", 1>>} \cup {<<"u1", p>> : p \in ps} : ps \in SUBSET (0..MaxIds)},
   owner : [1..MaxIds -> {"u1", "u2"}],
   fail : {"none", "user", "team", "owner", "main"}]

NoUser == [id |-> None, email |-> None, groups |-> NoText]

\* get_user_by_email with = in place of LOWER(email) = LOWER(%s)
GetUserByEmail_CaseSensitive(d, e) ==
  IF d.fail = "user" THEN NoUser
  ELSE LET hits == {u \in d.users : u.email = e}
       IN IF hits = {} THEN NoUser ELSE CHOOSE u \in hits : TRUE

\* get_user_by_email: the row fetchone() returns, None when there is none or
\* when the query raises
GetUserByEmail(d, e) ==
  IF d.fail = "user" THEN NoUser
  ELSE LET hits == {u \in d.users : EmailLower(u.email) = EmailLower(e)}
       IN IF hits = {} THEN NoUser ELSE CHOOSE u \in hits : TRUE

\* is_admin with == in place of in
IsAdmin_Equality(groups) ==
  IF groups = NoText \/ groups = <<>> THEN FALSE ELSE groups = ADMIN_GROUP_UUID

IsAdmin(groups) ==
  IF groups = NoText \/ groups = <<>> THEN FALSE ELSE ContainsSeq(groups, ADMIN_GROUP_UUID)

\* SELECT project_id FROM project_team WHERE user_id = %s
TeamProjectIds(d, user_id) == {t[2] : t \in {r \in d.team : r[1] = user_id}}

\* SELECT id FROM project WHERE owner_id = %s
OwnedProjectIds(d, user_id) == {p \in DOMAIN d.owner : d.owner[p] = user_id}

\* the main query without its second SELECT
UnionProjectIds_TeamOnly(d, user_id) == TeamProjectIds(d, user_id)

\* the main query: SELECT DISTINCT over the UNION of the two
UnionProjectIds(d, user_id) == TeamProjectIds(d, user_id) \cup OwnedProjectIds(d, user_id)

\* the orders in which fetchall() can return a set of rows
Perms(S) == {q \in [1..Cardinality(S) -> S] : \A i, j \in DOMAIN q : i # j => q[i] # q[j]}

IsNotNull(p) == p # 0

Str(p) == IdNames[p]

\* [str(row[0]) for row in results if row[0] is not None]
StrList(results) ==
  LET kept == SelectSeq(results, IsNotNull) IN [i \in DOMAIN kept |-> Str(kept[i])]

\* get_accessible_project_ids when the except clause returns what the two
\* queries before the main one have fetched
AccessibleProjectIds_PartialOnFailure(d, user_id) ==
  IF d.fail = "team" THEN {<<>>}
  ELSE IF d.fail = "owner" THEN {StrList(rows) : rows \in Perms(TeamProjectIds(d, user_id))}
  ELSE {StrList(rows) : rows \in Perms(UnionProjectIds(d, user_id))}

\* get_accessible_project_ids: the lists it can return
AccessibleProjectIds(d, user_id) ==
  IF d.fail \in {"team", "owner", "main"} THEN {<<>>}
  ELSE {StrList(rows) : rows \in Perms(UnionProjectIds(d, user_id))}

ProjectQueries == <<"project_team", "project_owner", "project_union">>

\* the queries get_accessible_project_ids executes, up to the one that raises
ProjectQueriesRun(d) ==
  CASE d.fail = "team" -> SubSeq(ProjectQueries, 1, 1)
    [] d.fail = "owner" -> SubSeq(ProjectQueries, 1, 2)
    [] OTHER -> ProjectQueries

\* the filter and the schema agent are not running
FilterIdle ==
  /\ shape = NoSql
  /\ state = [user_email |-> None, generated_sql |-> <<>>, original_sql |-> <<>>,
              user_id |-> None, is_admin |-> FALSE, accessible_project_ids |-> <<>>,
              is_valid |-> FALSE, validation_message |-> "", error |-> None,
              messages |-> <<>>]
  /\ auth_info = NotCalled
  /\ pc = "idle"
  /\ ref_table = None
  /\ ref_result = None
  /\ conds = <<>>
  /\ inj_result = <<>>

InitAuth ==
  /\ db \in Dbs
  /\ email \in QueryEmails
  /\ authz = NotCalled
  /\ queries = <<>>
  /\ svc_pc = "start"
  /\ FilterIdle
  /\ SchemaIdle
  /\ GenIdle
  /\ NluIdle
  /\ CacheIdle
  /\ ApiIdle

\* get_user_authorization(email), with the calls it makes
GetUserAuthorization ==
  /\ svc_pc = "start"
  /\ LET user == GetUserByEmail(db, email)
     IN IF user = NoUser
        THEN /\ authz' = [user_id |-> None, is_admin |-> FALSE,
                          accessible_project_ids |-> <<>>, error |-> "User not found"]
             /\ queries' = <<"user">>
        ELSE IF IsAdmin(user.groups)
        THEN /\ authz' = [user_id |-> user.id, is_admin |-> TRUE,
                          accessible_project_ids |-> <<>>, error |-> None]
             /\ queries' = <<"user">>
        ELSE /\ \E ids \in AccessibleProjectIds(db, user.id) :
                  authz' = [user_id |-> user.id, is_admin |-> FALSE,
                            accessible_project_ids |-> ids, error |-> None]
             /\ queries' = <<"user">> \o ProjectQueriesRun(db)
  /\ svc_pc' = "authorized"
  /\ UNCHANGED <<db, email, filterVars, schemaVars, genVars, nluVars, cacheVars, apiVars>>

NextAuth == GetUserAuthorization

SpecAuth == InitAuth /\ [][NextAuth]_vars

\* the rows of [user] whose email is the queried one up to letter case
SameEmail ==
  {u \in db.users :
     \/ u.email = email
     \/ u.email = "Alice@Example.com" /\ email \in {"alice@example.com", "ALICE@EXAMPLE.COM"}}

\* C14: get_user_authorization returns error "User not found", user_id None,
\* is_admin False and no accessible ids whenever the case-insensitive email
\* lookup yields no user record (no row matches, or the lookup raises), and
\* returns error None with the record's id whenever a record is found.
C14_UserNotFound ==
  svc_pc = "authorized"
  => IF SameEmail = {} \/ db.fail = "user"
     THEN authz = [user_id |-> None, is_admin |-> FALSE,
                   accessible_project_ids |-> <<>>, error |-> "User not found"]
     ELSE /\ authz.error = None
          /\ \E u \in SameEmail : authz.user_id = u.id

C14_Witness ==
  /\ svc_pc = "authorized"
  /\ email = "carol@example.com"
  /\ db.fail = "none"
  /\ authz.error = "User not found"

\* C15: a found user is admin iff the admin group UUID is a substring of the
\* groups field (NULL or empty groups: not admin); for an admin the
\* accessible id list is empty and no query follows the user lookup.
C15_AdminBySubstring ==
  (svc_pc = "authorized" /\ authz.error = None)
  => \E u \in SameEmail : \E k \in GroupKinds :
       /\ u.groups = GroupsText(k)
       /\ authz.is_admin <=> HasAdminUuid(k)
       /\ authz.is_admin => (authz.accessible_project_ids = <<>> /\ queries = <<"user">>)

C15_Witness ==
  /\ svc_pc = "authorized"
  /\ authz.is_admin
  /\ AliceRow("embedded") \in db.users
  /\ \E p \in 1..MaxIds : db.owner[p] = "u1"
  /\ queries = <<"user">>

\* the project ids the tables give the user: member of the team or owner
MemberOrOwner(user_id) ==
  {p \in 1..MaxIds : <<user_id, p>> \in db.team \/ db.owner[p] = user_id}

Elements(q) == {q[i] : i \in DOMAIN q}

\* C16: for a non-admin user whose lookups all succeed, accessible_project_ids
\* holds exactly the union of the ids of the projects the user is a team
\* member of and of the projects the user owns, each once and as a string.
C16_UnionOfTeamAndOwned ==
  (svc_pc = "authorized" /\ authz.error = None /\ ~authz.is_admin /\ db.fail = "none")
  => /\ Elements(authz.accessible_project_ids)
          = {IdNames[p] : p \in MemberOrOwner(authz.user_id)}
     /\ Len(authz.accessible_project_ids) = Cardinality(MemberOrOwner(authz.user_id))

C16_Witness ==
  /\ svc_pc = "authorized"
  /\ authz.user_id = "u1"
  /\ ~authz.is_admin
  /\ db.fail = "none"
  /\ {<<"u1", 0>>, <<"u1", 1>>} \subseteq db.team
  /\ db.owner[1] = "u1"
  /\ db.owner[2] = "u1"
  /\ authz.accessible_project_ids = <<"B", "A">>

\* C17: when one of the queries of get_accessible_project_ids raises for a
\* non-admin user, accessible_project_ids is empty, is_admin is False and
\* error is None, so apply_user_filters injects 1 = 0 and leaves no statement
\* unfiltered.
C17_LookupFailureFailsClosed ==
  (svc_pc = "authorized" /\ authz.user_id # None /\ db.fail \in {"team", "owner", "main"}
     /\ \E u \in SameEmail : \E k \in GroupKinds : u.groups = GroupsText(k) /\ ~HasAdminUuid(k))
  => /\ authz.accessible_project_ids = <<>>
     /\ authz.is_admin = FALSE
     /\ authz.error = None
     /\ ContainsSeq(FilteredSql(Sql6a, authz), ImpossibleCondition)

C17_Witness ==
  /\ svc_pc = "authorized"
  /\ db.fail = "main"
  /\ authz.user_id = "u1"
  /\ MemberOrOwner("u1") # {}
  /\ authz.accessible_project_ids = <<>>
  /\ queries = <<"user", "project_team", "project_owner", "project_union">>

(***************************************************************************)
(* SchemaAgent.get_relevant_schema (src/agents/schema_agent.py)            *)
(*                                                                         *)
(* A table name, a column name and the user query are sequences of         *)
(* characters, so that lower(), strip(), endswith('s'), the slice [:-1],   *)
(* the tokenizer's regular expression and the order of sorted() are the    *)
(* ones of Python strings.                                                 *)
(***************************************************************************)
\* the characters of the inputs, in code point order
CodePoints ==
  <<" ", "0", "1", "2", "3", "4", "5", "6", "7", "8", "9", "B", "C", "E",
  "I", "L", "N", "O", "S", "T", "_", "a", "b", "c", "d", "e", "f", "g", "h",
  "i", "j", "k", "l", "m", "n", "o", "p", "q", "r", "s", "t", "u", "v", "w",
  "x", "y", "z">>

CharRank(c) == CHOOSE i \in DOMAIN CodePoints : CodePoints[i] = c

\* str.lower() on one character
LowerChar(c) ==
  CASE c = "B" -> "b"
    [] c = "C" -> "c"
    [] c = "E" -> "e"
    [] c = "I" -> "i"
    [] c = "L" -> "l"
    [] c = "N" -> "n"
    [] c = "O" -> "o"
    [] c = "S" -> "s"
    [] c = "T" -> "t"
    [] OTHER -> c

LowerName(s) == [i \in DOMAIN s |-> LowerChar(s[i])]

\* str.strip()
StripName(s) ==
  LET kept == {i \in DOMAIN s : s[i] \notin Space}
  IN IF kept = {} THEN <<>> ELSE SubSeq(s, SetMin(kept), SetMax(kept))

\* the class [a-z0-9_]
TokenChars ==
  {"a", "b", "c", "d", "e", "f", "g", "h", "i", "j", "k", "l", "m", "n",
   "o", "p", "q", "r", "s", "t", "u", "v", "w", "x", "y", "z", "0", "1",
   "2", "3", "4", "5", "6", "7", "8", "9", "_"}

\* re.findall(r"[a-z0-9_]+", s): the maximal runs of token characters
FindTokens(s) ==
  {SubSeq(s, i, j) : <<i, j>> \in
     {r \in (DOMAIN s) \X (DOMAIN s) :
        /\ r[1] <= r[2]
        /\ \A k \in r[1]..r[2] : s[k] \in TokenChars
        /\ r[1] = 1 \/ s[r[1] - 1] \notin TokenChars
        /\ r[2] = Len(s) \/ s[r[2] + 1] \notin TokenChars}}

stopwords ==
  {<<"s", "h", "o", "w">>,
   <<"l", "i", "s", "t">>,
   <<"g", "e", "t">>,
   <<"f", "i", "n", "d">>,
   <<"a", "l", "l">>,
   <<"t", "h", "e">>,
   <<"m", "e">>,
   <<"f", "o", "r">>,
   <<"w", "i", "t", "h">>,
   <<"i", "n">>,
   <<"o", "f">>,
   <<"a", "n", "d">>,
   <<"t", "o", "p">>}

\* _tokenize without the lower() of line 11
Tokenize_NoLower(text) == FindTokens(text) \ stopwords

\* _tokenize
Tokenize(text) == FindTokens(LowerName(text)) \ stopwords

\* the tables a schema snapshot can hold, with their columns; the names of a
\* snapshot differ in more than letter case
SchemaPool ==
  {<<"c", "l", "i", "e", "n", "t">>,
   <<"C", "l", "i", "e", "n", "t", "s">>,
   <<"C", "l", "i", "e", "n", "t", "s", "s">>,
   <<"O", "r", "d", "e", "r", "s">>,
   <<"p", "r", "o", "j", "e", "c", "t">>}

ColumnsOf(tbl_name) ==
  CASE tbl_name = <<"c", "l", "i", "e", "n", "t">> ->
         <<[column_name |-> <<"i", "d">>, data_type |-> "int", is_nullable |-> "NO"],
           [column_name |-> <<"n", "a", "m", "e">>, data_type |-> "nvarchar", is_nullable |-> "YES"]>>
    [] tbl_name = <<"C", "l", "i", "e", "n", "t", "s">> ->
         <<[column_name |-> <<"i", "d">>, data_type |-> "int", is_nullable |-> "NO"],
           [column_name |-> <<"e", "m", "a", "i", "l">>, data_type |-> "nvarchar", is_nullable |-> "YES"]>>
    [] tbl_name = <<"C", "l", "i", "e", "n", "t", "s", "s">> ->
         <<[column_name |-> <<"i", "d">>, data_type |-> "int", is_nullable |-> "NO"]>>
    [] tbl_name = <<"O", "r", "d", "e", "r", "s">> ->
         <<[column_name |-> <<"o", "r", "d", "e", "r", "_", "i", "d">>, data_type |-> "int", is_nullable |-> "NO"],
           [column_name |-> <<"t", "o", "t", "a", "l">>, data_type |-> "decimal", is_nullable |-> "YES"]>>
    [] tbl_name = <<"p", "r", "o", "j", "e", "c", "t">> ->
         <<[column_name |-> <<"i", "d">>, data_type |-> "nvarchar", is_nullable |-> "NO"],
           [column_name |-> <<"b", "u", "d", "g", "e", "t">>, data_type |-> "decimal", is_nullable |-> "YES"]>>

\* what schema_cache.get_schema() gives: a snapshot, or an exception
Schemas ==
  [tables : SUBSET SchemaPool, raises : {FALSE}] \cup {[tables |-> {}, raises |-> TRUE]}

\* the names the NLU step can suggest
CandidateNames ==
  {<<"c", "l", "i", "e", "n", "t">>,
   <<"C", "l", "i", "e", "n", "t", "s">>,
   <<"C", "L", "I", "E", "N", "T", "S">>,
   <<"o", "r", "d", "e", "r">>,
   <<"g", "h", "o", "s", "t">>}

QueryKinds == {"empty", "stop", "budget", "total", "total_project", "id"}

QueryText(kind) ==
  CASE kind = "empty" -> <<>>
    [] kind = "stop" -> <<"l", "i", "s", "t", " ", "a", "l", "l">>
    [] kind = "budget" -> <<"s", "h", "o", "w", " ", "t", "h", "e", " ", "b", "u", "d", "g", "e", "t">>
    [] kind = "total" -> <<"T", "o", "p", " ", "T", "o", "t", "a", "l">>
    [] kind = "total_project" -> <<"t", "o", "t", "a", "l", " ", "o", "f", " ", "p", "r", "o", "j", "e", "c", "t">>
    [] kind = "id" -> <<"f", "i", "n", "d", " ", "i", "d">>

\* all_actual_tables: whether a lower-case name is a key, and its value
IsActualTable(sch, t_lower) == \E name \in sch.tables : LowerName(name) = t_lower
ActualTable(sch, t_lower) == CHOOSE name \in sch.tables : LowerName(name) = t_lower

EndsWithS(t) == Len(t) > 0 /\ t[Len(t)] = "s"
ButLast(t) == SubSeq(t, 1, Len(t) - 1)

\* ResolveTable with the plural test before the singular one
ResolveTable_PluralBeforeSingular(sch, t_nlu) ==
  LET t_lower == StripName(LowerName(t_nlu))
  IN IF IsActualTable(sch, t_lower) THEN <<ActualTable(sch, t_lower)>>
     ELSE IF IsActualTable(sch, Append(t_lower, "s"))
     THEN <<ActualTable(sch, Append(t_lower, "s"))>>
     ELSE IF EndsWithS(t_lower) /\ IsActualTable(sch, ButLast(t_lower))
     THEN <<ActualTable(sch, ButLast(t_lower))>>
     ELSE <<>>

\* lines 40-47: what one suggested name adds to matched_tables
ResolveTable(sch, t_nlu) ==
  LET t_lower == StripName(LowerName(t_nlu))
  IN IF IsActualTable(sch, t_lower) THEN <<ActualTable(sch, t_lower)>>
     ELSE IF EndsWithS(t_lower) /\ IsActualTable(sch, ButLast(t_lower))
     THEN <<ActualTable(sch, ButLast(t_lower))>>
     ELSE IF IsActualTable(sch, Append(t_lower, "s"))
     THEN <<ActualTable(sch, Append(t_lower, "s"))>>
     ELSE <<>>

RECURSIVE MatchedTables(_, _)
MatchedTables(sch, tables_from_nlu) ==
  IF tables_from_nlu = <<>> THEN <<>>
  ELSE ResolveTable(sch, Head(tables_from_nlu)) \o MatchedTables(sch, Tail(tables_from_nlu))

TableTokens(tbl_name) == FindTokens(LowerName(tbl_name))

ColumnTokens(tbl_name) ==
  UNION {FindTokens(LowerName(ColumnsOf(tbl_name)[i].column_name)) :
           i \in DOMAIN ColumnsOf(tbl_name)}

\* lines 53-66, as a set: the order of the list is lost in line 71
TokenBasedTables(sch, query_text) ==
  {tbl_name \in sch.tables :
     Tokenize(query_text) \cap (TableTokens(tbl_name) \cup ColumnTokens(tbl_name)) # {}}

\* the order of Python strings: by code point, a proper prefix first
LessName(a, b) ==
  \E k \in 1..(Len(a) + 1) :
    /\ \A i \in 1..(k - 1) : i <= Len(b) /\ a[i] = b[i]
    /\ k <= Len(b)
    /\ k = Len(a) + 1 \/ CharRank(a[k]) < CharRank(b[k])

\* sorted(S)
RECURSIVE Sorted(_)
Sorted(S) ==
  IF S = {} THEN <<>>
  ELSE LET least == CHOOSE x \in S : \A y \in S \ {x} : LessName(x, y)
       IN <<least>> \o Sorted(S \ {least})

\* lines 71-72 without set() and sorted()
RelevantTables_Concatenated(sch, st) ==
  MatchedTables(sch, st.relevant_tables)
    \o Sorted(TokenBasedTables(sch, st.user_query))

\* lines 71-72: sorted(list(set(matched_tables) | set(token_based_tables)))
RelevantTables(sch, st) ==
  LET matched_tables == MatchedTables(sch, st.relevant_tables)
  IN Sorted({matched_tables[i] : i \in DOMAIN matched_tables}
              \cup TokenBasedTables(sch, st.user_query))

\* the parts one column adds: f"  - {column_name} ({data_type}) {nullable}"
ColumnPart(c) ==
  <<"  - ", c.column_name, c.data_type, IF c.is_nullable = "YES" THEN "NULL" ELSE "NOT NULL">>

\* lines 89-95: the parts of one table
TableParts(table_name) ==
  <<<<"\n### Table: ", table_name, "", "">>, <<"Columns:", <<>>, "", "">>>>
    \o [i \in DOMAIN ColumnsOf(table_name) |-> ColumnPart(ColumnsOf(table_name)[i])]

\* lines 80-96: schema_context as the list of the parts "\n".join puts
\* together, empty for the empty string
RECURSIVE SchemaContext(_)
SchemaContext(relevant_tables) ==
  IF relevant_tables = <<>> THEN <<>>
  ELSE TableParts(Head(relevant_tables)) \o SchemaContext(Tail(relevant_tables))

MsgSchemaFailed == "Schema retrieval failed"

(***************************************************************************)
(* Text2SQLAgent.generate_sql (src/agents/text2sql_agent.py)               *)
(*                                                                         *)
(* A completion is the sequence of its chunks: one whitespace character,   *)
(* or a run of text that neither starts nor ends with whitespace.  The     *)
(* sentinel is two chunks and the opening fence of a SQL block is the      *)
(* fence chunk followed by the chunk "sql"; no other chunk holds a part of *)
(* either, so a substring test is a test on chunks.  generated_sql is None *)
(* or the value sanitize_sql returns for a text; utils/helpers.py is not   *)
(* part of the sources, so that value is kept as the text it was given.    *)
(***************************************************************************)
NoSqlText == [is_none |-> TRUE, sanitize_sql_of |-> <<>>]
SanitizeSql(sql_query) == [is_none |-> FALSE, sanitize_sql_of |-> sql_query]

Sentinel == <<"NO_SCHEMA_", "MATCH">>
\* the chunk "[fence]" stands for the three backquotes of a code fence
Fence == <<"[fence]">>
SqlFence == <<"[fence]", "sql">>
PlainSql == "SELECT * FROM project"

ReplyKinds ==
  {"sql", "padded", "sentinel", "sentinel_message", "sentinel_comment", "sentinel_fenced",
   "sentinel_lower", "sentinel_cut", "fenced_sql", "fenced", "empty"}

\* whether the completion of that kind holds NO_SCHEMA_MATCH
HasSentinel(kind) ==
  kind \in {"sentinel", "sentinel_message", "sentinel_comment", "sentinel_fenced"}

ReplyText(kind) ==
  CASE kind = "sql" -> <<PlainSql>>
    [] kind = "padded" -> <<"\n", PlainSql, " ">>
    [] kind = "sentinel" -> Sentinel
    [] kind = "sentinel_message" ->
         Sentinel \o <<":", " ", "Cannot answer query with available schema.">>
    [] kind = "sentinel_comment" -> <<PlainSql, " ", "--", " ">> \o Sentinel
    [] kind = "sentinel_fenced" -> SqlFence \o <<"\n">> \o Sentinel \o <<"\n">> \o Fence
    [] kind = "sentinel_lower" -> <<"no_schema_match">>
    [] kind = "sentinel_cut" -> <<"NO_SCHEMA_">>
    [] kind = "fenced_sql" -> SqlFence \o <<"\n", PlainSql, "\n">> \o Fence
    [] kind = "fenced" -> Fence \o <<"\n", PlainSql, "\n">> \o Fence \o <<"\n", "Done.">>
    [] kind = "empty" -> <<>>

\* what generate_content can do: answer with a text, or raise
LlmReplies ==
  {[raises |-> FALSE, text |-> ReplyText(k)] : k \in ReplyKinds}
    \cup {[raises |-> TRUE, text |-> <<>>]}

\* str.strip() on chunks
StripText(s) ==
  LET kept == {i \in DOMAIN s : s[i] \notin Space}
  IN IF kept = {} THEN <<>> ELSE SubSeq(s, SetMin(kept), SetMax(kept))

\* s.split(sep)[0] and the rest of s after the first sep
BeforeFirst(s, sep) ==
  LET hits == {i \in 1..(Len(s) - Len(sep) + 1) : SubSeq(s, i, i + Len(sep) - 1) = sep}
  IN IF hits = {} THEN s ELSE SubSeq(s, 1, SetMin(hits) - 1)
AfterFirst(s, sep) ==
  LET hits == {i \in 1..(Len(s) - Len(sep) + 1) : SubSeq(s, i, i + Len(sep) - 1) = sep}
  IN SubSeq(s, SetMin(hits) + Len(sep), Len(s))

\* lines 190-193: the SQL inside the first code block, when there is one
ExtractSql(sql_query) ==
  IF ContainsSeq(sql_query, SqlFence)
  THEN StripText(BeforeFirst(AfterFirst(sql_query, SqlFence), Fence))
  ELSE IF ContainsSeq(sql_query, Fence)
  THEN StripText(BeforeFirst(AfterFirst(sql_query, Fence), Fence))
  ELSE sql_query

MsgNoSchema ==
  "No correct schema identified for the question. Cannot generate SQL without risking hallucination."
MsgNoSchemaMatch == "No correct schema identified to answer the question."
MsgGenerationFailed == "SQL generation failed"

\* lines 174-206 with == in place of in at line 180
AnswerTo_SentinelEquality(st, reply, sanitize_raises) ==
  IF reply.raises THEN [st EXCEPT !.error = MsgGenerationFailed, !.step = "error"]
  ELSE LET sql_query == StripText(reply.text)
       IN IF sql_query = Sentinel
          THEN [st EXCEPT !.generated_sql = NoSqlText,
                          !.is_valid = FALSE,
                          !.validation_message = MsgNoSchemaMatch,
                          !.step = "validation_failed"]
          ELSE IF sanitize_raises
          THEN [st EXCEPT !.error = MsgGenerationFailed, !.step = "error"]
          ELSE [st EXCEPT !.generated_sql = SanitizeSql(ExtractSql(sql_query)),
                          !.step = "sql_generated"]

\* lines 174-206: the state once the model was asked
AnswerTo(st, reply, sanitize_raises) ==
  IF reply.raises THEN [st EXCEPT !.error = MsgGenerationFailed, !.step = "error"]
  ELSE LET sql_query == StripText(reply.text)
       IN IF ContainsSeq(sql_query, Sentinel)
          THEN [st EXCEPT !.generated_sql = NoSqlText,
                          !.is_valid = FALSE,
                          !.validation_message = MsgNoSchemaMatch,
                          !.step = "validation_failed"]
          ELSE IF sanitize_raises
          THEN [st EXCEPT !.error = MsgGenerationFailed, !.step = "error"]
          ELSE [st EXCEPT !.generated_sql = SanitizeSql(ExtractSql(sql_query)),
                          !.step = "sql_generated"]

\* generate_sql without the check of lines 26-34
GenerateSqlTo_NoTablesCheck(st, reply, sanitize_raises) == AnswerTo(st, reply, sanitize_raises)

\* the state generate_sql returns
GenerateSqlTo(st, reply, sanitize_raises) ==
  IF st.relevant_tables = <<>>
  THEN [st EXCEPT !.generated_sql = NoSqlText,
                  !.is_valid = FALSE,
                  !.requires_human_approval = FALSE,
                  !.validation_message = MsgNoSchema,
                  !.messages = Append(st.messages, MsgNoSchema),
                  !.step = "validation_failed"]
  ELSE AnswerTo(st, reply, sanitize_raises)

\* sanitize_sql returns or raises, when line 196 is reached
SanitizeOutcomes(st, reply) ==
  IF st.relevant_tables = <<>> \/ reply.raises \/ ContainsSeq(StripText(reply.text), Sentinel)
  THEN {FALSE} ELSE BOOLEAN

InitSchema ==
  /\ schema \in Schemas
  /\ sch_input \in [query_kind : QueryKinds,
                    tables_from_nlu : SeqsUpTo(CandidateNames, MaxCands)]
  /\ sch_state = [user_query |-> QueryText(sch_input.query_kind),
                  relevant_tables |-> sch_input.tables_from_nlu,
                  schema_context |-> <<>>,
                  generated_sql |-> NoSqlText,
                  is_valid |-> FALSE,
                  validation_message |-> "",
                  messages |-> <<>>,
                  requires_human_approval |-> FALSE,
                  step |-> "nlu_complete",
                  error |-> None]
  /\ sch_pc = "start"
  /\ llm_reply = [raises |-> FALSE, text |-> ReplyText("sql")]
  /\ llm_calls = 0
  /\ FilterIdle
  /\ AuthIdle
  /\ NluIdle
  /\ CacheIdle
  /\ ApiIdle

\* get_relevant_schema(state)
GetRelevantSchema ==
  /\ sch_pc = "start"
  /\ sch_state' =
       IF schema.raises
       THEN [sch_state EXCEPT !.error = MsgSchemaFailed, !.step = "error"]
       ELSE LET relevant_tables == RelevantTables(schema, sch_state)
            IN [sch_state EXCEPT !.relevant_tables = relevant_tables,
                                 !.schema_context = SchemaContext(relevant_tables),
                                 !.step = "schema_retrieved"]
  /\ sch_pc' = "retrieved"
  /\ UNCHANGED <<schema, sch_input, filterVars, authVars, genVars, nluVars, cacheVars, apiVars>>

\* generate_sql(state), the node the workflow runs on a retrieved schema
GenerateSql ==
  /\ sch_pc = "retrieved"
  /\ sch_state.step = "schema_retrieved"
  /\ \E sanitize_raises \in SanitizeOutcomes(sch_state, llm_reply) :
       sch_state' = GenerateSqlTo(sch_state, llm_reply, sanitize_raises)
  /\ llm_calls' = IF sch_state.relevant_tables = <<>> THEN llm_calls ELSE llm_calls + 1
  /\ sch_pc' = "generated"
  /\ UNCHANGED <<schema, sch_input, llm_reply, filterVars, authVars, nluVars, cacheVars, apiVars>>

NextSchema ==
  \/ GetRelevantSchema
  \/ GenerateSql

SpecSchema == InitSchema /\ [][NextSchema]_vars

\* generate_sql on its own: a state with or without relevant tables and
\* every answer of the model
InitGenerate ==
  /\ schema \in {[tables |-> {}, raises |-> FALSE], [tables |-> SchemaPool, raises |-> FALSE]}
  /\ sch_input \in [query_kind : QueryKinds, tables_from_nlu : {<<>>}]
  /\ LET relevant_tables == RelevantTables(schema, [user_query |-> QueryText(sch_input.query_kind),
                                                    relevant_tables |-> <<>>])
     IN sch_state = [user_query |-> QueryText(sch_input.query_kind),
                     relevant_tables |-> relevant_tables,
                     schema_context |-> SchemaContext(relevant_tables),
                     generated_sql |-> NoSqlText,
                     is_valid |-> FALSE,
                     validation_message |-> "",
                     messages |-> <<>>,
                     requires_human_approval |-> FALSE,
                     step |-> "schema_retrieved",
                     error |-> None]
  /\ sch_pc = "retrieved"
  /\ llm_reply \in LlmReplies
  /\ llm_calls = 0
  /\ FilterIdle
  /\ AuthIdle
  /\ NluIdle
  /\ CacheIdle
  /\ ApiIdle

NextGenerate == GenerateSql

SpecGenerate == InitGenerate /\ [][NextGenerate]_vars

\* get_relevant_schema returned without an exception inside it
Retrieved == sch_pc = "retrieved" /\ sch_state.step = "schema_retrieved"

\* C18: a suggested name resolves case-insensitively to the table with the
\* exact name, else to the table named without its trailing "s", else to the
\* table named with an "s" appended, and the result is the schema's own
\* spelling of the name; seen for one suggested name and a query without
\* tokens.
C18_TableNameResolution ==
  (Retrieved /\ Len(sch_input.tables_from_nlu) = 1
     /\ sch_input.query_kind \in {"empty", "stop"})
  => LET c == LowerName(sch_input.tables_from_nlu[1])
         exact == {t \in schema.tables : LowerName(t) = c}
         singular == {t \in schema.tables : Append(LowerName(t), "s") = c}
         plural == {t \in schema.tables : LowerName(t) = Append(c, "s")}
         first == IF exact # {} THEN exact ELSE IF singular # {} THEN singular ELSE plural
     IN IF first = {} THEN sch_state.relevant_tables = <<>>
        ELSE /\ Len(sch_state.relevant_tables) = 1
             /\ sch_state.relevant_tables[1] \in first

C18_Witness ==
  /\ Retrieved
  /\ sch_input.tables_from_nlu = <<<<"C", "L", "I", "E", "N", "T", "S">>>>
  /\ sch_input.query_kind = "empty"
  /\ schema.tables = {<<"c", "l", "i", "e", "n", "t">>, <<"C", "l", "i", "e", "n", "t", "s", "s">>}
  /\ sch_state.relevant_tables = <<<<"c", "l", "i", "e", "n", "t">>>>

\* C19: after get_relevant_schema succeeds, relevant_tables is the sorted list,
\* without duplicates, of the resolved suggested names and the token-match
\* tables; every element is a table name of the snapshot; a suggested name
\* that resolves to nothing is dropped and raises no error.
C19_SortedUnion ==
  sch_pc = "retrieved"
  => IF schema.raises THEN sch_state.step = "error"
     ELSE LET rt == sch_state.relevant_tables
              matched == MatchedTables(schema, sch_input.tables_from_nlu)
          IN /\ sch_state.step = "schema_retrieved"
             /\ sch_state.error = None
             /\ \A i, j \in DOMAIN rt : i < j => LessName(rt[i], rt[j])
             /\ Elements(rt) = Elements(matched)
                                 \cup TokenBasedTables(schema, QueryText(sch_input.query_kind))
             /\ Elements(rt) \subseteq schema.tables

C19_Witness ==
  /\ Retrieved
  /\ sch_input.tables_from_nlu = <<<<"g", "h", "o", "s", "t">>, <<"c", "l", "i", "e", "n", "t">>>>
  /\ sch_input.query_kind = "total"
  /\ sch_state.relevant_tables = <<<<"O", "r", "d", "e", "r", "s">>, <<"c", "l", "i", "e", "n", "t">>>>
  /\ sch_state.error = None

\* the words of the query that are not stopwords, in lower case
MentionedWords(kind) ==
  CASE kind = "budget" -> {<<"b", "u", "d", "g", "e", "t">>}
    [] kind = "total" -> {<<"t", "o", "t", "a", "l">>}
    [] kind = "total_project" -> {<<"t", "o", "t", "a", "l">>, <<"p", "r", "o", "j", "e", "c", "t">>}
    [] kind = "id" -> {<<"i", "d">>}
    [] OTHER -> {}

\* the tables of the snapshot that have a column of that name
TablesWithColumn(col) ==
  {t \in schema.tables : \E i \in DOMAIN ColumnsOf(t) : ColumnsOf(t)[i].column_name = col}

\* a word of the query is the table's name or one of its column names
Mentioned(t) ==
  \E w \in MentionedWords(sch_input.query_kind) :
    w = LowerName(t) \/ t \in TablesWithColumn(w)

\* C20 as stated: with no suggested table and a query that mentions a column
\* name belonging to exactly one table, relevant_tables is exactly that table.
C20_UniqueColumn_Original ==
  (Retrieved /\ sch_input.tables_from_nlu = <<>>)
  => \A w \in MentionedWords(sch_input.query_kind) : \A t \in schema.tables :
       TablesWithColumn(w) = {t} => sch_state.relevant_tables = <<t>>

\* C20 as amended: with no suggested table and a query that has a token equal
\* to a column name belonging to exactly one table, relevant_tables holds that
\* table, and holds another table exactly when a token of the query is a
\* token of that table's name or of one of its column names.
C20_UniqueColumn ==
  (Retrieved /\ sch_input.tables_from_nlu = <<>>)
  => \A w \in MentionedWords(sch_input.query_kind) : \A t \in schema.tables :
       TablesWithColumn(w) = {t}
       => /\ t \in Elements(sch_state.relevant_tables)
          /\ \A u \in schema.tables \ {t} :
               u \in Elements(sch_state.relevant_tables) <=> Mentioned(u)
          /\ (\A u \in schema.tables \ {t} : ~Mentioned(u))
               => sch_state.relevant_tables = <<t>>

C20_Witness ==
  /\ Retrieved
  /\ sch_input.tables_from_nlu = <<>>
  /\ sch_input.query_kind = "total"
  /\ schema.tables = SchemaPool
  /\ sch_state.relevant_tables = <<<<"O", "r", "d", "e", "r", "s">>>>

(***************************************************************************)
(* NLUAgent.analyze_intent (src/agents/nlu_agent.py)                       *)
(*                                                                         *)
(* A completion is the sequence of its lines and a line the sequence of    *)
(* its chunks: one of the three labels, one whitespace character, a comma, *)
(* or a run of other text without whitespace or comma at its ends.  A      *)
(* parsed value is the sequence of the chunks it is made of.               *)
(***************************************************************************)
Labels == {"Intent:", "Entities:", "Tables Likely Needed:"}

NluLines ==
  {<<"Intent:", " ", "list">>,
   <<"Intent:", "count", " ">>,
   <<"Intent:", " ", "Intent:", "top">>,
   <<"Entities:", " ", "status:Active", ",", " ", ",", "Acme">>,
   <<"Entities:", " ", "Intent:", "x">>,
   <<"Tables Likely Needed:", " ", "project", ",", " ", "client", "\t">>,
   <<"Tables Likely Needed:">>,
   <<" ", "Intent:", " ", "join">>,
   <<"intent:", " ", "list">>,
   <<"Sure,", " ", "here", " ", "it", " ", "is">>,
   <<>>}

\* what generate_content can do: answer with a text, or raise
NluReplies ==
  {[raises |-> FALSE, text |-> t] : t \in SeqsUpTo(NluLines, MaxLines)}
    \cup {[raises |-> TRUE, text |-> <<>>]}

\* line.replace(label, '')
RECURSIVE RemoveLabel(_, _)
RemoveLabel(line, label) ==
  IF line = <<>> THEN <<>>
  ELSE IF Head(line) = label THEN RemoveLabel(Tail(line), label)
  ELSE <<Head(line)>> \o RemoveLabel(Tail(line), label)

\* s.split(',')
RECURSIVE SplitCommas(_)
SplitCommas(s) ==
  LET commas == {i \in DOMAIN s : s[i] = ","}
  IN IF commas = {} THEN <<s>>
     ELSE <<SubSeq(s, 1, SetMin(commas) - 1)>>
            \o SplitCommas(SubSeq(s, SetMin(commas) + 1, Len(s)))

\* [x.strip() for x in s.split(',') if x.strip()]
RECURSIVE StrippedItems(_)
StrippedItems(parts) ==
  IF parts = <<>> THEN <<>>
  ELSE LET x == StripText(Head(parts))
       IN (IF x = <<>> THEN <<>> ELSE <<x>>) \o StrippedItems(Tail(parts))

\* line.startswith(label)
StartsWithLabel(line, label) == line # <<>> /\ Head(line) = label

\* the test of lines 91-96 with "label in line"
HasLabel_Anywhere(line, label) == \E i \in DOMAIN line : line[i] = label

\* the test of lines 91, 93 and 96
HasLabel(line, label) == StartsWithLabel(line, label)

\* lines 86-98: the three fields after the lines were read in order
RECURSIVE ParseLines(_, _)
ParseLines(lines, fields) ==
  IF lines = <<>> THEN fields
  ELSE LET line == Head(lines)
           next ==
             IF HasLabel(line, "Intent:")
             THEN [fields EXCEPT !.intent = StripText(RemoveLabel(line, "Intent:"))]
             ELSE IF HasLabel(line, "Entities:")
             THEN [fields EXCEPT !.entities =
                     StrippedItems(SplitCommas(StripText(RemoveLabel(line, "Entities:"))))]
             ELSE IF HasLabel(line, "Tables Likely Needed:")
             THEN [fields EXCEPT !.tables =
                     StrippedItems(SplitCommas(StripText(RemoveLabel(line, "Tables Likely Needed:"))))]
             ELSE fields
       IN ParseLines(Tail(lines), next)

NluDefaults == [intent |-> <<"unknown">>, entities |-> <<>>, tables |-> <<>>]
MsgIntentFailed == "Intent analysis failed"

\* the state analyze_intent returns
AnalyzeIntentTo(st, reply) ==
  IF reply.raises THEN [st EXCEPT !.error = MsgIntentFailed, !.step = "error"]
  ELSE LET fields == ParseLines(reply.text, NluDefaults)
       IN [st EXCEPT !.intent = fields.intent,
                     !.entities = fields.entities,
                     !.relevant_tables = fields.tables,
                     !.step = "nlu_complete"]

InitNlu ==
  /\ nlu_reply \in NluReplies
  /\ nlu_state = [intent |-> <<None>>, entities |-> <<>>, relevant_tables |-> <<>>,
                  step |-> "start", error |-> None]
  /\ nlu_pc = "start"
  /\ FilterIdle
  /\ AuthIdle
  /\ SchemaIdle
  /\ GenIdle
  /\ CacheIdle
  /\ ApiIdle

\* analyze_intent(state)
AnalyzeIntent ==
  /\ nlu_pc = "start"
  /\ nlu_state' = AnalyzeIntentTo(nlu_state, nlu_reply)
  /\ nlu_pc' = "analyzed"
  /\ UNCHANGED <<nlu_reply, filterVars, authVars, schemaVars, genVars, cacheVars, apiVars>>

NextNlu == AnalyzeIntent

SpecNlu == InitNlu /\ [][NextNlu]_vars

(***************************************************************************)
(* SchemaCache (src/database/schema_cache.py)                              *)
(*                                                                         *)
(* A snapshot is a record: kind "dict" for a schema dictionary, "empty"    *)
(* for {}; source names where its tables were read from.  Each call runs   *)
(* in its own thread; a step is one access to self.cache, to the cache     *)
(* file, to the clock or to a source of tables, which is where the         *)
(* interpreter can switch threads.                                         *)
(***************************************************************************)
CACHE_TTL == 2

Threads == {"reader", "admin"}

DbTables == <<"client", "project">>
ExcelTables == <<"contacts", "project">>
ManualTables == {"client", "contacts", "project"}
FileTables == {"project"}

\* the tables a complete snapshot of that source holds
SourceTables(source) ==
  CASE source = "db" -> Elements(DbTables)
    [] source = "excel" -> Elements(ExcelTables)
    [] source = "manual" -> ManualTables
    [] source = "file" -> FileTables
    [] OTHER -> {}

EmptyCache ==
  [kind |-> "empty", has_timestamp |-> FALSE, timestamp |-> 0, tables |-> {}, source |-> "none"]
Snapshot(source, timestamp, tables) ==
  [kind |-> "dict", has_timestamp |-> TRUE, timestamp |-> timestamp, tables |-> tables,
   source |-> source]
\* a schema_cache.json written by hand, without a timestamp
HandWritten ==
  [kind |-> "dict", has_timestamp |-> FALSE, timestamp |-> 0, tables |-> FileTables,
   source |-> "file"]
NoFile == [EmptyCache EXCEPT !.kind = "absent"]
\* the cache file between open(..., 'w') and the end of json.dump
PartFile == [EmptyCache EXCEPT !.kind = "partial"]

\* what a call has not returned yet, and what it raised
NoResult == [EmptyCache EXCEPT !.kind = "none"]
Raised == [EmptyCache EXCEPT !.kind = "raised"]
KeyErrorRaised == [EmptyCache EXCEPT !.kind = "KeyError"]

NoCall ==
  [op |-> "none", force_refresh |-> FALSE, pc |-> "done", schema |-> EmptyCache, todo |-> <<>>,
   result |-> NoResult]
Call(op, force_refresh) ==
  [op |-> op, force_refresh |-> force_refresh, pc |-> op, schema |-> EmptyCache, todo |-> <<>>,
   result |-> NoResult]

\* lines 53-59 and 86-91: the new dictionary and the list of tables to read
StartBuild(pr, source, ok) ==
  IF ok
  THEN [pr EXCEPT !.schema = Snapshot(source, now, {}),
                  !.todo = IF source = "db" THEN DbTables ELSE ExcelTables,
                  !.pc = "build"]
  ELSE [pr EXCEPT !.schema = Snapshot(source, now, {}), !.result = Raised, !.pc = "done"]

\* lines 61-66 with the columns written into the published dictionary
AddTable_IntoCache(pr, c, ok) ==
  IF ok
  THEN [proc |-> [pr EXCEPT !.schema.tables = @ \cup {Head(pr.todo)}, !.todo = Tail(@)],
        cache |-> [pr.schema EXCEPT !.tables = @ \cup {Head(pr.todo)}]]
  ELSE [proc |-> [pr EXCEPT !.result = Raised, !.pc = "done"], cache |-> c]

\* lines 61-66 and 100-140: one table is read into the new dictionary
AddTable(pr, c, ok) ==
  IF ok
  THEN [proc |-> [pr EXCEPT !.schema.tables = @ \cup {Head(pr.todo)}, !.todo = Tail(@)],
        cache |-> c]
  ELSE [proc |-> [pr EXCEPT !.result = Raised, !.pc = "done"], cache |-> c]

\* lines 43-47 and 151: where get_schema goes after each look at self.cache
AfterNotCache(pr, c) ==
  IF pr.force_refresh \/ c.kind = "empty" THEN [pr EXCEPT !.pc = "refresh_schema"]
  ELSE [pr EXCEPT !.pc = "has_timestamp"]
AfterHasTimestamp(pr, c) ==
  IF ~c.has_timestamp THEN [pr EXCEPT !.pc = "refresh_schema"]
  ELSE [pr EXCEPT !.pc = "cache_age"]
AfterCacheAge_NoTtl(pr, c) ==
  IF ~c.has_timestamp THEN [pr EXCEPT !.result = KeyErrorRaised, !.pc = "done"]
  ELSE [pr EXCEPT !.pc = "return_cache"]
AfterCacheAge(pr, c) ==
  IF ~c.has_timestamp THEN [pr EXCEPT !.result = KeyErrorRaised, !.pc = "done"]
  ELSE IF now - c.timestamp < CACHE_TTL THEN [pr EXCEPT !.pc = "return_cache"]
  ELSE [pr EXCEPT !.pc = "refresh_schema"]

otherVars == <<filterVars, authVars, schemaVars, genVars, nluVars, apiVars>>

\* get_schema, line 151 and is_cache_valid, line 43: not self.cache
GetSchemaNotCache(t) ==
  /\ procs[t].pc = "get_schema"
  /\ procs' = [procs EXCEPT ![t] = AfterNotCache(@, cache)]
  /\ UNCHANGED <<cache, cache_file, now, cache0, db_calls, published, otherVars>>

\* is_cache_valid, line 43: 'timestamp' not in self.cache
GetSchemaHasTimestamp(t) ==
  /\ procs[t].pc = "has_timestamp"
  /\ procs' = [procs EXCEPT ![t] = AfterHasTimestamp(@, cache)]
  /\ UNCHANGED <<cache, cache_file, now, cache0, db_calls, published, otherVars>>

\* is_cache_valid, lines 46-47
GetSchemaCacheAge(t) ==
  /\ procs[t].pc = "cache_age"
  /\ procs' = [procs EXCEPT ![t] = AfterCacheAge(@, cache)]
  /\ UNCHANGED <<cache, cache_file, now, cache0, db_calls, published, otherVars>>

\* line 153 and line 191: return self.cache
ReturnCache(t) ==
  /\ procs[t].pc = "return_cache"
  /\ procs' = [procs EXCEPT ![t].result = cache, ![t].pc = "done"]
  /\ UNCHANGED <<cache, cache_file, now, cache0, db_calls, published, otherVars>>

\* refresh_schema, lines 53-59: the new dictionary and get_all_tables()
RefreshStart(t) ==
  /\ procs[t].pc = "refresh_schema"
  /\ \E ok \in BOOLEAN : procs' = [procs EXCEPT ![t] = StartBuild(@, "db", ok)]
  /\ db_calls' = db_calls + 1
  /\ UNCHANGED <<cache, cache_file, now, cache0, published, otherVars>>

\* load_schema_from_excel, lines 84-91: the new dictionary and the workbook
ExcelStart(t) ==
  /\ procs[t].pc = "load_schema_from_excel"
  /\ \E ok \in BOOLEAN : procs' = [procs EXCEPT ![t] = StartBuild(@, "excel", ok)]
  /\ UNCHANGED <<cache, cache_file, now, cache0, db_calls, published, otherVars>>

\* one turn of the loops of lines 61-66 and 100-140
BuildTable(t) ==
  /\ procs[t].pc = "build"
  /\ procs[t].todo # <<>>
  /\ \E ok \in BOOLEAN :
       LET next == AddTable(procs[t], cache, ok)
       IN /\ procs' = [procs EXCEPT ![t] = next.proc]
          /\ cache' = next.cache
  /\ db_calls' = IF procs[t].schema.source = "db" THEN db_calls + 1 ELSE db_calls
  /\ UNCHANGED <<cache_file, now, cache0, published, otherVars>>

\* lines 68, 141 and 447: self.cache = schema
Publish(t) ==
  /\ procs[t].pc = "build"
  /\ procs[t].todo = <<>>
  /\ cache' = procs[t].schema
  /\ published' = published \cup {procs[t].schema}
  /\ procs' = [procs EXCEPT ![t].pc = "save_open"]
  /\ UNCHANGED <<cache_file, now, cache0, db_calls, otherVars>>

\* save_cache, line 35: open(self.cache_file, 'w'), which may fail
SaveOpen(t) ==
  /\ procs[t].pc = "save_open"
  /\ \E ok \in BOOLEAN :
       /\ cache_file' = IF ok THEN PartFile ELSE cache_file
       /\ procs' = [procs EXCEPT ![t].pc = IF ok THEN "save_dump" ELSE "return_schema"]
  /\ UNCHANGED <<cache, now, cache0, db_calls, published, otherVars>>

\* save_cache, line 36: json.dump(self.cache, f), which may fail midway
SaveDump(t) ==
  /\ procs[t].pc = "save_dump"
  /\ \E ok \in BOOLEAN : cache_file' = IF ok THEN cache ELSE PartFile
  /\ procs' = [procs EXCEPT ![t].pc = "return_schema"]
  /\ UNCHANGED <<cache, now, cache0, db_calls, published, otherVars>>

\* lines 76, 144 and 450: return schema
ReturnSchema(t) ==
  /\ procs[t].pc = "return_schema"
  /\ procs' = [procs EXCEPT ![t].result = procs[t].schema, ![t].pc = "done"]
  /\ UNCHANGED <<cache, cache_file, now, cache0, db_calls, published, otherVars>>

\* load_manual_schema, lines 183-193 and 202-445: the cache file when it
\* holds a dictionary with tables, else the embedded schema
ManualLoad(t) ==
  /\ procs[t].pc = "load_manual_schema"
  /\ IF cache_file.kind = "dict"
     THEN /\ cache' = cache_file
          /\ published' = published \cup {cache_file}
          /\ procs' = [procs EXCEPT ![t].pc = "return_cache"]
     ELSE /\ procs' = [procs EXCEPT ![t].schema = Snapshot("manual", now, ManualTables),
                                    ![t].pc = "build"]
          /\ UNCHANGED <<cache, published>>
  /\ UNCHANGED <<cache_file, now, cache0, db_calls, otherVars>>

\* time passes
Tick ==
  /\ now < MaxTime
  /\ now' = now + 1
  /\ UNCHANGED <<cache, cache_file, procs, cache0, db_calls, published, otherVars>>

\* the cache as __init__ leaves it: what load_cache read from the cache file
InitCacheAndFile ==
  /\ cache_file \in {NoFile, PartFile, HandWritten}
                      \cup {Snapshot("db", ts, Elements(DbTables)) : ts \in 0..MaxTime}
  /\ cache = IF cache_file.kind = "dict" THEN cache_file ELSE EmptyCache
  /\ cache0 = cache
  /\ now \in 0..MaxTime
  /\ db_calls = 0
  /\ published = {}

\* a get_schema call and an administrative call in two threads
InitCache ==
  /\ InitCacheAndFile
  /\ \E force_refresh \in BOOLEAN :
       \E op \in {"refresh_schema", "load_schema_from_excel", "load_manual_schema"} :
         procs = [t \in Threads |-> IF t = "reader" THEN Call("get_schema", force_refresh)
                                    ELSE Call(op, FALSE)]
  /\ FilterIdle
  /\ AuthIdle
  /\ SchemaIdle
  /\ GenIdle
  /\ NluIdle
  /\ ApiIdle

NextCache ==
  \/ \E t \in Threads : GetSchemaNotCache(t)
  \/ \E t \in Threads : GetSchemaHasTimestamp(t)
  \/ \E t \in Threads : GetSchemaCacheAge(t)
  \/ \E t \in Threads : ReturnCache(t)
  \/ \E t \in Threads : RefreshStart(t)
  \/ \E t \in Threads : ExcelStart(t)
  \/ \E t \in Threads : BuildTable(t)
  \/ \E t \in Threads : Publish(t)
  \/ \E t \in Threads : SaveOpen(t)
  \/ \E t \in Threads : SaveDump(t)
  \/ \E t \in Threads : ReturnSchema(t)
  \/ \E t \in Threads : ManualLoad(t)
  \/ Tick

SpecCache == InitCache /\ [][NextCache]_vars

\* one get_schema call on its own
InitGetSchema ==
  /\ InitCacheAndFile
  /\ \E force_refresh \in BOOLEAN :
       procs = [t \in Threads |-> IF t = "reader" THEN Call("get_schema", force_refresh)
                                  ELSE NoCall]
  /\ FilterIdle
  /\ AuthIdle
  /\ SchemaIdle
  /\ GenIdle
  /\ NluIdle
  /\ ApiIdle

NextGetSchema ==
  \/ GetSchemaNotCache("reader")
  \/ GetSchemaHasTimestamp("reader")
  \/ GetSchemaCacheAge("reader")
  \/ ReturnCache("reader")
  \/ RefreshStart("reader")
  \/ BuildTable("reader")
  \/ Publish("reader")
  \/ SaveOpen("reader")
  \/ SaveDump("reader")
  \/ ReturnSchema("reader")

SpecGetSchema == InitGetSchema /\ [][NextGetSchema]_vars

(***************************************************************************)
(* The workflow endpoints (src/main.py)                                    *)
(*                                                                         *)
(* A request body and a response body are the fields of GraphStateModel    *)
(* the endpoints read or write.  The client chooses every field of the     *)
(* body it posts to /query/execute.  executor_agent and formatter_agent    *)
(* are not part of the sources: the executor answers with or without an    *)
(* execution_error, or raises, and the formatter answers or raises.        *)
(***************************************************************************)
ApiState(sql, valid, message, approved) ==
  [generated_sql |-> sql, is_valid |-> valid, validation_message |-> message,
   execution_approved |-> approved, execution_error |-> None, formatted_response |-> None]

NoBody == ApiState(<<>>, FALSE, "", FALSE)

\* the statements the model writes and clients post
SqlPool ==
  {<<"SELECT", " ", "*", " ", "FROM", " ", "project">>,
   <<"SELECT", " ", "*", " ", "FROM", " ", "zoho_deals">>}

\* lines 65-83: the state /query/generate starts the workflow with; it has
\* no user_email key
InitialState ==
  [user_email |-> None, generated_sql |-> <<>>, original_sql |-> <<>>, user_id |-> None,
   is_admin |-> FALSE, accessible_project_ids |-> <<>>, is_valid |-> FALSE,
   validation_message |-> "", error |-> None, messages |-> <<>>]

\* text2sql_workflow.invoke as the data flow describes it: the statement the
\* model wrote, judged valid or not, goes through apply_user_filters
WorkflowInvoke(initial_state, sql, valid) ==
  ApplyUserFiltersTo([initial_state EXCEPT !.generated_sql = sql, !.is_valid = valid],
                     NotCalled)

\* whether apply_user_filters filtered the statement for a user
PassedFilter(initial_state, result) ==
  initial_state.user_email # None /\ result.is_valid /\ result.original_sql # <<>>

\* POST /query/generate, lines 56-97
GenerateSqlQueryTo(sql, valid, raises) ==
  IF raises THEN [status |-> 500, body |-> NoBody]
  ELSE LET result_state == WorkflowInvoke(InitialState, sql, valid)
       IN [status |-> 200,
           body |-> ApiState(result_state.generated_sql, result_state.is_valid,
                             result_state.validation_message, FALSE)]

ExecutorOutcomes == {"rows", "execution_error", "empty_error", "raises"}
MsgExecutionError == "Invalid column name"

\* the value of exec_state.get("execution_error")
ExecutionErrorOf(outcome) ==
  CASE outcome = "execution_error" -> MsgExecutionError
    [] outcome = "empty_error" -> ""
    [] OTHER -> None

NoCalls == [executor |-> FALSE, outcome |-> "none", formatter |-> FALSE]

\* /query/execute without the check of lines 115-116
ExecuteSqlQueryTo_NoApprovalCheck(body, outcome, formatter_raises) ==
  IF ~body.is_valid
  THEN [response |-> [status |-> 400, body |-> NoBody], calls |-> NoCalls]
  ELSE IF outcome = "raises"
  THEN [response |-> [status |-> 500, body |-> NoBody],
        calls |-> [executor |-> TRUE, outcome |-> outcome, formatter |-> FALSE]]
  ELSE IF ExecutionErrorOf(outcome) \notin {None, ""}
  THEN [response |-> [status |-> 200,
                      body |-> [body EXCEPT !.execution_error = ExecutionErrorOf(outcome)]],
        calls |-> [executor |-> TRUE, outcome |-> outcome, formatter |-> FALSE]]
  ELSE [response |-> IF formatter_raises THEN [status |-> 500, body |-> NoBody]
                     ELSE [status |-> 200,
                           body |-> [body EXCEPT !.execution_error = ExecutionErrorOf(outcome),
                                                 !.formatted_response = "formatted"]],
        calls |-> [executor |-> TRUE, outcome |-> outcome, formatter |-> TRUE]]

\* POST /query/execute, lines 99-137: the response, and what was called
ExecuteSqlQueryTo(body, outcome, formatter_raises) ==
  IF ~body.is_valid
  THEN [response |-> [status |-> 400, body |-> NoBody], calls |-> NoCalls]
  ELSE IF ~body.execution_approved
  THEN [response |-> [status |-> 400, body |-> NoBody], calls |-> NoCalls]
  ELSE IF outcome = "raises"
  THEN [response |-> [status |-> 500, body |-> NoBody],
        calls |-> [executor |-> TRUE, outcome |-> outcome, formatter |-> FALSE]]
  ELSE IF ExecutionErrorOf(outcome) \notin {None, ""}
  THEN [response |-> [status |-> 200,
                      body |-> [body EXCEPT !.execution_error = ExecutionErrorOf(outcome)]],
        calls |-> [executor |-> TRUE, outcome |-> outcome, formatter |-> FALSE]]
  ELSE [response |-> IF formatter_raises THEN [status |-> 500, body |-> NoBody]
                     ELSE [status |-> 200,
                           body |-> [body EXCEPT !.execution_error = ExecutionErrorOf(outcome),
                                                 !.formatted_response = "formatted"]],
        calls |-> [executor |-> TRUE, outcome |-> outcome, formatter |-> TRUE]]

\* the bodies a client posts to /query/execute
ExecuteBodies ==
  {ApiState(sql, valid, message, approved) :
     sql \in SqlPool \cup {<<>>}, valid \in BOOLEAN, message \in {"", MsgEmailRequired},
     approved \in BOOLEAN}

InitApi ==
  /\ api_request = [endpoint |-> "none", body |-> NoBody]
  /\ api_response = [status |-> 0, body |-> NoBody]
  /\ api_calls = NoCalls
  /\ executed = {}
  /\ filtered = {}
  /\ requests = 0
  /\ FilterIdle
  /\ AuthIdle
  /\ SchemaIdle
  /\ GenIdle
  /\ NluIdle
  /\ CacheIdle

\* generate_sql_query(request)
QueryGenerate ==
  /\ requests < MaxRequests
  /\ \E sql \in SqlPool \cup {<<>>}, valid \in BOOLEAN, raises \in BOOLEAN :
       /\ api_request' = [endpoint |-> "generate", body |-> NoBody]
       /\ api_response' = GenerateSqlQueryTo(sql, valid, raises)
       /\ filtered' =
            LET result_state == WorkflowInvoke(InitialState, sql, valid)
            IN IF ~raises /\ PassedFilter(InitialState, result_state)
               THEN filtered \cup {result_state.generated_sql} ELSE filtered
  /\ api_calls' = NoCalls
  /\ requests' = requests + 1
  /\ UNCHANGED <<executed, filterVars, authVars, schemaVars, genVars, nluVars, cacheVars>>

\* execute_sql_query(state)
QueryExecute ==
  /\ requests < MaxRequests
  /\ \E body \in ExecuteBodies, outcome \in ExecutorOutcomes, formatter_raises \in BOOLEAN :
       LET handled == ExecuteSqlQueryTo(body, outcome, formatter_raises)
       IN /\ api_request' = [endpoint |-> "execute", body |-> body]
          /\ api_response' = handled.response
          /\ api_calls' = handled.calls
          /\ executed' = IF handled.calls.executor THEN executed \cup {body.generated_sql}
                         ELSE executed
  /\ requests' = requests + 1
  /\ UNCHANGED <<filtered, filterVars, authVars, schemaVars, genVars, nluVars, cacheVars>>

NextApi ==
  \/ QueryGenerate
  \/ QueryExecute

SpecApi == InitApi /\ [][NextApi]_vars

\* the state generate_sql returned
Generated == sch_pc = "generated"

\* neither a suggested name nor a token of the query matches a table
NoTableMatches ==
  /\ ~schema.raises
  /\ MatchedTables(schema, sch_input.tables_from_nlu) = <<>>
  /\ TokenBasedTables(schema, QueryText(sch_input.query_kind)) = {}

\* C21: when neither the suggested names nor the token fallback matches a
\* table, get_relevant_schema leaves relevant_tables empty and schema_context
\* the empty string, and generate_sql then abstains without calling the model:
\* generated_sql is None, is_valid is false and step is validation_failed.
C21_NoTablesAbstains ==
  /\ (NoTableMatches /\ (Retrieved \/ Generated))
     => /\ sch_state.relevant_tables = <<>>
        /\ sch_state.schema_context = <<>>
  /\ (NoTableMatches /\ Generated)
     => /\ sch_state.generated_sql = NoSqlText
        /\ ~sch_state.is_valid
        /\ sch_state.step = "validation_failed"
        /\ llm_calls = 0

C21_Witness ==
  /\ Generated
  /\ NoTableMatches
  /\ sch_input.tables_from_nlu = <<<<"g", "h", "o", "s", "t">>>>
  /\ sch_input.query_kind = "budget"
  /\ schema.tables = {<<"c", "l", "i", "e", "n", "t">>}
  /\ sch_state.step = "validation_failed"
  /\ sch_state.validation_message = MsgNoSchema
  /\ llm_calls = 0

\* the model was asked and answered with a text
Answered == Generated /\ llm_calls = 1 /\ ~llm_reply.raises

\* C26: if the completion contains NO_SCHEMA_MATCH anywhere, generate_sql
\* stores no SQL: generated_sql is None, is_valid is false and step is
\* validation_failed; a completion is stored as generated_sql with step
\* sql_generated only when it does not contain the sentinel.
C26_SentinelStoresNoSql ==
  Answered
  => \A kind \in ReplyKinds :
       ReplyText(kind) = llm_reply.text
       => /\ HasSentinel(kind)
             => /\ sch_state.generated_sql = NoSqlText
                /\ ~sch_state.is_valid
                /\ sch_state.step = "validation_failed"
          /\ (sch_state.step = "sql_generated" \/ sch_state.generated_sql # NoSqlText)
             => /\ ~HasSentinel(kind)
                /\ sch_state.step = "sql_generated"
                /\ sch_state.generated_sql = SanitizeSql(ExtractSql(StripText(llm_reply.text)))

C26_Witness ==
  /\ Answered
  /\ llm_reply.text = ReplyText("sentinel_comment")
  /\ sch_state.relevant_tables # <<>>
  /\ sch_state.generated_sql = NoSqlText
  /\ sch_state.validation_message = MsgNoSchemaMatch
  /\ sch_state.step = "validation_failed"

\* a completion without the sentinel was stored
C26_StoredWitness ==
  /\ Answered
  /\ llm_reply.text = ReplyText("fenced_sql")
  /\ sch_state.generated_sql = SanitizeSql(<<PlainSql>>)
  /\ sch_state.step = "sql_generated"

\* the lines of the completion that start with the label
LabelledLines(label) ==
  {i \in DOMAIN nlu_reply.text : nlu_reply.text[i] # <<>> /\ nlu_reply.text[i][1] = label}

\* the text after the label on the last such line, without the whitespace
\* around it
LastValue(label) ==
  StripText(RemoveLabel(nlu_reply.text[SetMax(LabelledLines(label))], label))

\* a value is the list of the items between the commas of the text, without
\* the whitespace around them and without the empty ones
IsItemList(items, text) ==
  LET commas == {i \in DOMAIN text : text[i] = ","}
      starts == {i \in 1..(Len(text) + 1) : i = 1 \/ (i - 1) \in commas}
      Piece(i) == SubSeq(text, i, SetMin({j \in commas \cup {Len(text) + 1} : j >= i}) - 1)
      filled == {i \in starts : \E j \in DOMAIN Piece(i) : Piece(i)[j] \notin Space}
  IN /\ Len(items) = Cardinality(filled)
     /\ \A i \in filled :
          items[Cardinality({j \in filled : j <= i})] = StripText(Piece(i))

\* C22: for every completion text the model returns, analyze_intent ends
\* with step nlu_complete and without an error; only the lines that start
\* with Intent:, Entities: or Tables Likely Needed: count, and a field whose
\* line is missing keeps its default (intent "unknown", no entities, no
\* tables).
C22_NluAlwaysCompletes ==
  (nlu_pc = "analyzed" /\ ~nlu_reply.raises)
  => /\ nlu_state.step = "nlu_complete"
     /\ nlu_state.error = None
     /\ IF LabelledLines("Intent:") = {} THEN nlu_state.intent = <<"unknown">>
        ELSE nlu_state.intent = LastValue("Intent:")
     /\ IF LabelledLines("Entities:") = {} THEN nlu_state.entities = <<>>
        ELSE IsItemList(nlu_state.entities, LastValue("Entities:"))
     /\ IF LabelledLines("Tables Likely Needed:") = {} THEN nlu_state.relevant_tables = <<>>
        ELSE IsItemList(nlu_state.relevant_tables, LastValue("Tables Likely Needed:"))

C22_Witness ==
  /\ nlu_pc = "analyzed"
  /\ nlu_reply.text = <<<<"Sure,", " ", "here", " ", "it", " ", "is">>,
                        <<" ", "Intent:", " ", "join">>>>
  /\ nlu_state.intent = <<"unknown">>
  /\ nlu_state.entities = <<>>
  /\ nlu_state.relevant_tables = <<>>
  /\ nlu_state.step = "nlu_complete"

\* a completion in the expected format was parsed
C22_ParsedWitness ==
  /\ nlu_pc = "analyzed"
  /\ nlu_reply.text = <<<<"Entities:", " ", "status:Active", ",", " ", ",", "Acme">>,
                        <<"Tables Likely Needed:", " ", "project", ",", " ", "client", "\t">>>>
  /\ nlu_state.entities = <<<<"status:Active">>, <<"Acme">>>>
  /\ nlu_state.relevant_tables = <<<<"project">>, <<"client">>>>

\* a snapshot that holds every table of the source it was read from
Complete(snapshot) ==
  snapshot.kind = "dict" /\ snapshot.tables = SourceTables(snapshot.source)

\* what readers can obtain and what stays published is complete
OnlyCompleteSnapshots ==
  /\ \A t \in DOMAIN procs :
       (procs[t].op = "get_schema" /\ procs[t].result.kind = "dict")
       => /\ Complete(procs[t].result)
          /\ procs[t].result \in published \cup {cache0}
  /\ cache \in published \cup {cache0}
  /\ \A snapshot \in published : Complete(snapshot)

\* a call that raises leaves self.cache bound to what it was bound to
FailureKeepsSnapshot ==
  (\E t \in DOMAIN procs : procs[t].result.kind = "none" /\ procs'[t].result.kind = "raised")
  => cache' = cache

\* C23: under any interleaving of refresh_schema, load_schema_from_excel and
\* load_manual_schema with get_schema, a reader only obtains a complete
\* snapshot, one that was published before or during its call, never a
\* partially filled table map; a refresh that fails midway leaves the
\* published snapshot in place.
C23_AtomicSnapshotSwap == []OnlyCompleteSnapshots /\ [][FailureKeepsSnapshot]_vars

\* the reader returned the old snapshot after the administrative call had
\* published a new one, and that call then failed to write the cache file
C23_Witness ==
  /\ DOMAIN procs = Threads
  /\ procs["reader"].pc = "done"
  /\ procs["reader"].result = cache0
  /\ procs["admin"].op = "refresh_schema"
  /\ procs["admin"].pc = "done"
  /\ cache = procs["admin"].result
  /\ cache # cache0
  /\ Complete(cache)
  /\ cache_file = PartFile

\* a refresh failed after reading one of two tables
C23_FailedWitness ==
  /\ DOMAIN procs = Threads
  /\ procs["admin"].result = Raised
  /\ procs["admin"].schema.tables = {"client"}
  /\ procs["reader"].pc = "done"
  /\ procs["reader"].result = cache0
  /\ cache = cache0
  /\ Complete(cache0)

\* the call finds a cache it may use: not forced, not empty, with a
\* timestamp younger than CACHE_TTL
CacheUsable ==
  /\ ~procs["reader"].force_refresh
  /\ cache0.kind = "dict"
  /\ cache0.has_timestamp
  /\ now - cache0.timestamp < CACHE_TTL

GetSchemaDone == DOMAIN procs = Threads /\ procs["reader"].pc = "done"

\* C24: get_schema returns the cached snapshot without asking the database
\* exactly when force_refresh is false and the cache is not empty, has a
\* timestamp and is younger than CACHE_TTL; in every other case it asks the
\* database, and what it returns is the new snapshot, which it has published
\* (when the database raises, so does get_schema and the cache stays).
C24_CachedExactlyWhenValid ==
  GetSchemaDone
  => IF CacheUsable
     THEN /\ procs["reader"].result = cache0
          /\ cache = cache0
          /\ db_calls = 0
     ELSE /\ db_calls > 0
          /\ procs["reader"].result \in {Raised, Snapshot("db", now, Elements(DbTables))}
          /\ procs["reader"].result = Raised => cache = cache0
          /\ procs["reader"].result # Raised => cache = procs["reader"].result

\* the cache is exactly CACHE_TTL old and is refreshed
C24_Witness ==
  /\ GetSchemaDone
  /\ ~procs["reader"].force_refresh
  /\ cache0.has_timestamp
  /\ now - cache0.timestamp = CACHE_TTL
  /\ procs["reader"].result = Snapshot("db", now, Elements(DbTables))
  /\ cache = procs["reader"].result
  /\ db_calls = 3

\* the cache is younger than CACHE_TTL and is returned
C24_CachedWitness ==
  /\ GetSchemaDone
  /\ CacheUsable
  /\ now - cache0.timestamp = CACHE_TTL - 1
  /\ procs["reader"].result = cache0
  /\ db_calls = 0

\* the names the statement gives the table: the table name, and the alias it
\* declares after the table name
DeclaredReferences(t) ==
  {t} \cup (IF shape.tbl = t /\ shape.alias # "none" THEN {AliasOf(t)} ELSE {})
      \cup (IF shape.follow.kind = "join" /\ t = "zoho_deals" THEN {"z"} ELSE {})

\* C28: the reference _get_table_reference returns is the table name itself
\* or the alias the SQL declares for that table, never a keyword that merely
\* follows the table name (JOIN, INNER, LEFT, RIGHT, CROSS, ON).
C28_ReferenceNamesTable ==
  (pc = "referenced" /\ ref_result # None) => ref_result \in DeclaredReferences(ref_table)

\* the statement up to and including the name of the protected table
UpToTable == HeadPart(shape) \o TablePart(shape)

\* C29: when a new WHERE clause is added to SQL that has none, it is inserted
\* after the FROM/JOIN reference to the protected table, also when the select
\* list holds a column named limit, offset or fetch, or a window function with
\* OVER (ORDER BY ...).
C29_NewWhereAfterFrom ==
  (pc = "injected" /\ conds # <<>> /\ shape.tbl # "none" /\ shape.follow.kind # "where")
  => /\ \E i \in DOMAIN inj_result : inj_result[i] = "\n"
     /\ \A i \in DOMAIN inj_result : inj_result[i] = "\n" => i > Len(UpToTable)

\* C30: a state without user_email, which is what /query/generate builds, is
\* refused by apply_user_filters without a call to the authorization service:
\* is_valid is false, validation_message is the email-required message and
\* generated_sql is left as it was.
C30_NoEmailRefuses ==
  (pc = "filtered" /\ state.user_email = None)
  => /\ ~state.is_valid
     /\ state.validation_message = MsgEmailRequired
     /\ state.generated_sql = InputSql
     /\ state.original_sql = <<>>
     /\ state.user_id = None
     /\ state.accessible_project_ids = <<>>
     /\ auth_info = NotCalled

C30_Witness ==
  /\ pc = "filtered"
  /\ state.user_email = None
  /\ shape.tbl = "project"
  /\ state.generated_sql = <<"SELECT", " ", "*", " ", "FROM", " ", "project">>
  /\ state.validation_message = MsgEmailRequired
  /\ ~state.is_valid
  /\ auth_info = NotCalled

\* the last request was a POST /query/execute
Executing == api_request.endpoint = "execute"

\* C25: /query/execute calls the executor only for a state whose is_valid and
\* execution_approved are both true; otherwise it answers 400 and the executor
\* is not called.  The formatter is called only after an execution that
\* reported no execution_error.
C25_ExecuteOnlyApproved ==
  Executing
  => /\ api_calls.executor
          <=> (api_request.body.is_valid /\ api_request.body.execution_approved)
     /\ ~api_calls.executor => (api_response.status = 400 /\ ~api_calls.formatter)
     /\ api_calls.formatter
          => /\ api_calls.executor
             /\ api_calls.outcome \in {"rows", "empty_error"}
             /\ ExecutionErrorOf(api_calls.outcome) \in {None, ""}

C25_Witness ==
  /\ Executing
  /\ api_request.body.is_valid
  /\ api_request.body.execution_approved
  /\ api_calls = [executor |-> TRUE, outcome |-> "rows", formatter |-> TRUE]
  /\ api_response.status = 200
  /\ api_response.body.formatted_response = "formatted"

\* a valid state that was not approved is answered with 400
C25_RefusedWitness ==
  /\ Executing
  /\ api_request.body.is_valid
  /\ ~api_request.body.execution_approved
  /\ api_calls = NoCalls
  /\ api_response.status = 400

\* C27: across any sequence of /query/generate and /query/execute requests,
\* every SQL string /query/execute hands to the executor is one that
\* apply_user_filters returned for the requesting user.
C27_ExecutedWasFiltered == executed \subseteq filtered

====
